---- MODULE Spec2Model ----
(***************************************************************************)
(* InferRail: the job lifecycle of contracts/inferrail (task_market.move), *)
(* its escrow (escrow.move), its abort codes (errors.move) and the events  *)
(* it emits (events.move).                                                 *)
(*                                                                         *)
(* A transaction either commits all of its effects or aborts with a code   *)
(* and commits none (Move abort semantics).  Every entry function reads    *)
(* the sender from the transaction context and the time from the shared    *)
(* Clock.                                                                  *)
(***************************************************************************)
EXTENDS Integers, Sequences, FiniteSets, TLC

\* ------------------------------------------------------------------ bounds
MaxTime == 3
MaxBudget == 2

\* ------------------------------------------------- task_market.move:18-22
STATUS_CREATED == 0
STATUS_ACCEPTED == 1
STATUS_SUBMITTED == 2
STATUS_SETTLED == 3
STATUS_REFUNDED == 4

\* -------------------------------------------------------- errors.move:3-11
E_INVALID_DEADLINE == 1
E_INVALID_BUDGET == 2
E_INVALID_STATE == 3
E_ONLY_REQUESTER_CAN_SETTLE == 4
E_ONLY_REQUESTER_CAN_REFUND == 5
E_ONLY_WORKER_CAN_SUBMIT == 6
E_JOB_NOT_EXPIRED == 7
E_JOB_ALREADY_EXPIRED == 8
E_REQUESTER_CANNOT_ACCEPT == 9

\* ------------------------------------------------------------------ inputs
\* Transaction senders.
Addresses == {"0xA", "0xB", "0xC"}
\* Job descriptions a caller may pass (the empty string included).
Descriptions == {"", "summarize"}
\* Result references a caller may pass (the empty string included).
ResultUris == {"", "ipfs://result"}
\* Result digests a caller may pass (byte vectors).
ResultHashes == {<<1>>, <<2>>}
\* Deadlines a caller may pass, and the values of the payment coin.
Deadlines == 0..(MaxTime - 1)
CoinValues == 0..MaxBudget

\* std::option: Option<T> is a vector of at most one element.
none == <<>>
some(x) == <<x>>
is_some(o) == Len(o) = 1
is_none(o) == Len(o) = 0
borrow(o) == o[1]

VARIABLES
    jobs,       \* the shared Job objects, in creation order; a job's id is its index
    clock,      \* the timestamp of the shared Clock
    events,     \* the events emitted so far, in emission order
    transfers,  \* the coins transferred out of escrows so far, in order
    last        \* the latest step's transaction: the call, its sender, its abort code,
                \* and for create_job its arguments (no job records them when it aborts)

vars == <<jobs, clock, events, transfers, last>>

\* The ids of the jobs shared so far.
JobIds == DOMAIN jobs

\* ---------------------------------------------------------------- escrow
\* escrow::lock_funds: the balance of the payment coin.
lock_funds(payment) == payment

\* Mutant of release_all_to: the guard is payout > 1, so a balance of 1 is
\* never transferred.
release_all_to_skips_one(escrow, recipient) ==
    LET payout == escrow IN
    IF payout > 1
    THEN [escrow |-> escrow - payout,
          payout |-> payout,
          transfers |-> <<[recipient |-> recipient, amount |-> payout]>>]
    ELSE [escrow |-> escrow, payout |-> payout, transfers |-> <<>>]

\* Mutant of release_all_to: the coin is made from a copy of the balance, and
\* the escrow is not split.
release_all_to_no_split(escrow, recipient) ==
    LET payout == escrow IN
    IF payout > 0
    THEN [escrow |-> escrow,
          payout |-> payout,
          transfers |-> <<[recipient |-> recipient, amount |-> payout]>>]
    ELSE [escrow |-> escrow, payout |-> payout, transfers |-> <<>>]

\* Mutant of release_all_to: one unit of a balance above 1 stays in the escrow.
release_all_to_leaves_dust(escrow, recipient) ==
    LET payout == IF escrow > 1 THEN escrow - 1 ELSE escrow IN
    IF payout > 0
    THEN [escrow |-> escrow - payout,
          payout |-> payout,
          transfers |-> <<[recipient |-> recipient, amount |-> payout]>>]
    ELSE [escrow |-> escrow, payout |-> payout, transfers |-> <<>>]

\* Mutant of release_all_to: the balance is transferred without the guard
\* payout > 0, so a zero balance transfers a coin of value 0.
release_all_to_always_transfers(escrow, recipient) ==
    LET payout == escrow IN
    [escrow |-> escrow - payout,
     payout |-> payout,
     transfers |-> <<[recipient |-> recipient, amount |-> payout]>>]

\* escrow::release_all_to: the whole balance leaves the escrow; a zero balance
\* transfers nothing.
release_all_to(escrow, recipient) ==
    LET payout == escrow IN
    IF payout > 0
    THEN [escrow |-> escrow - payout,
          payout |-> payout,
          transfers |-> <<[recipient |-> recipient, amount |-> payout]>>]
    ELSE [escrow |-> escrow, payout |-> payout, transfers |-> <<>>]

\* Mutant of refund_all_to: the coin is transferred twice.
refund_all_to_transfers_twice(escrow, recipient) ==
    LET released == release_all_to(escrow, recipient) IN
    [escrow |-> released.escrow,
     payout |-> released.payout,
     transfers |-> released.transfers \o released.transfers]

\* escrow::refund_all_to
refund_all_to(escrow, recipient) ==
    release_all_to(escrow, recipient)

\* ---------------------------------------------------------------- events
emit_job_created(job_id, requester, budget, deadline_ms, created_at_ms) ==
    [type |-> "JobCreated", job_id |-> job_id, requester |-> requester,
     budget |-> budget, deadline_ms |-> deadline_ms, created_at_ms |-> created_at_ms]

emit_job_accepted(job_id, worker, accepted_at_ms) ==
    [type |-> "JobAccepted", job_id |-> job_id, worker |-> worker,
     accepted_at_ms |-> accepted_at_ms]

emit_result_submitted(job_id, worker, result_hash, submitted_at_ms) ==
    [type |-> "ResultSubmitted", job_id |-> job_id, worker |-> worker,
     result_hash |-> result_hash, submitted_at_ms |-> submitted_at_ms]

emit_job_settled(job_id, requester, worker, payout, settled_at_ms) ==
    [type |-> "JobSettled", job_id |-> job_id, requester |-> requester,
     worker |-> worker, payout |-> payout, settled_at_ms |-> settled_at_ms]

emit_job_refunded(job_id, requester, refund, refunded_at_ms) ==
    [type |-> "JobRefunded", job_id |-> job_id, requester |-> requester,
     refund |-> refund, refunded_at_ms |-> refunded_at_ms]

\* ------------------------------------------------- results of a function
\* A function body either aborts with a code, or returns the job as it
\* leaves it together with the transfers made and the events emitted.
Abort(code) == [abort |-> code]
Ok(job, trs, evs) == [abort |-> 0, job |-> job, transfers |-> trs, events |-> evs]

\* ----------------------------------------------------------- task_market
\* Mutant of create_job: the deadline comparison is >=.
create_job_internal_deadline_inclusive(job_id, requester, description, deadline_ms, payment, now_ms) ==
    IF ~(deadline_ms >= now_ms) THEN Abort(E_INVALID_DEADLINE)
    ELSE LET budget == payment IN
    IF ~(budget > 0) THEN Abort(E_INVALID_BUDGET)
    ELSE LET locked_escrow == lock_funds(payment)
             job == [id |-> job_id,
                     requester |-> requester,
                     worker |-> none,
                     description |-> description,
                     budget |-> budget,
                     deadline_ms |-> deadline_ms,
                     status |-> STATUS_CREATED,
                     result_uri |-> none,
                     result_hash |-> none,
                     created_at_ms |-> now_ms,
                     updated_at_ms |-> now_ms,
                     escrow |-> locked_escrow]
         IN Ok(job, <<>>,
               <<emit_job_created(job_id, requester, budget, deadline_ms, now_ms)>>)

\* Mutant of create_job: the budget comparison is >=.
create_job_internal_zero_budget(job_id, requester, description, deadline_ms, payment, now_ms) ==
    IF ~(deadline_ms > now_ms) THEN Abort(E_INVALID_DEADLINE)
    ELSE LET budget == payment IN
    IF ~(budget >= 0) THEN Abort(E_INVALID_BUDGET)
    ELSE LET locked_escrow == lock_funds(payment)
             job == [id |-> job_id,
                     requester |-> requester,
                     worker |-> none,
                     description |-> description,
                     budget |-> budget,
                     deadline_ms |-> deadline_ms,
                     status |-> STATUS_CREATED,
                     result_uri |-> none,
                     result_hash |-> none,
                     created_at_ms |-> now_ms,
                     updated_at_ms |-> now_ms,
                     escrow |-> locked_escrow]
         IN Ok(job, <<>>,
               <<emit_job_created(job_id, requester, budget, deadline_ms, now_ms)>>)

\* create_job, up to the sharing of the new object; job_id is the fresh id.
create_job_internal(job_id, requester, description, deadline_ms, payment, now_ms) ==
    IF ~(deadline_ms > now_ms) THEN Abort(E_INVALID_DEADLINE)
    ELSE LET budget == payment IN
    IF ~(budget > 0) THEN Abort(E_INVALID_BUDGET)
    ELSE LET locked_escrow == lock_funds(payment)
             job == [id |-> job_id,
                     requester |-> requester,
                     worker |-> none,
                     description |-> description,
                     budget |-> budget,
                     deadline_ms |-> deadline_ms,
                     status |-> STATUS_CREATED,
                     result_uri |-> none,
                     result_hash |-> none,
                     created_at_ms |-> now_ms,
                     updated_at_ms |-> now_ms,
                     escrow |-> locked_escrow]
         IN Ok(job, <<>>,
               <<emit_job_created(job_id, requester, budget, deadline_ms, now_ms)>>)

\* Mutant of accept_job_internal: the status is not checked.
accept_job_internal_no_state_check(job, sender, now_ms) ==
    IF ~(sender # job.requester) THEN Abort(E_REQUESTER_CANNOT_ACCEPT)
    ELSE IF ~(now_ms <= job.deadline_ms) THEN Abort(E_JOB_ALREADY_EXPIRED)
    ELSE Ok([job EXCEPT !.worker = some(sender),
                        !.status = STATUS_ACCEPTED,
                        !.updated_at_ms = now_ms],
            <<>>,
            <<emit_job_accepted(job.id, sender, now_ms)>>)

\* Mutant of accept_job_internal: the worker is recorded and the status is
\* left as it was.
accept_job_internal_keeps_status(job, sender, now_ms) ==
    IF ~(job.status = STATUS_CREATED) THEN Abort(E_INVALID_STATE)
    ELSE IF ~(sender # job.requester) THEN Abort(E_REQUESTER_CANNOT_ACCEPT)
    ELSE IF ~(now_ms <= job.deadline_ms) THEN Abort(E_JOB_ALREADY_EXPIRED)
    ELSE Ok([job EXCEPT !.worker = some(sender),
                        !.updated_at_ms = now_ms],
            <<>>,
            <<emit_job_accepted(job.id, sender, now_ms)>>)

\* Mutant of accept_job_internal: the deadline comparison is <.
accept_job_internal_strict_deadline(job, sender, now_ms) ==
    IF ~(job.status = STATUS_CREATED) THEN Abort(E_INVALID_STATE)
    ELSE IF ~(sender # job.requester) THEN Abort(E_REQUESTER_CANNOT_ACCEPT)
    ELSE IF ~(now_ms < job.deadline_ms) THEN Abort(E_JOB_ALREADY_EXPIRED)
    ELSE Ok([job EXCEPT !.worker = some(sender),
                        !.status = STATUS_ACCEPTED,
                        !.updated_at_ms = now_ms],
            <<>>,
            <<emit_job_accepted(job.id, sender, now_ms)>>)

\* Mutant of accept_job_internal: the deadline is checked before the sender.
accept_job_internal_expiry_first(job, sender, now_ms) ==
    IF ~(job.status = STATUS_CREATED) THEN Abort(E_INVALID_STATE)
    ELSE IF ~(now_ms <= job.deadline_ms) THEN Abort(E_JOB_ALREADY_EXPIRED)
    ELSE IF ~(sender # job.requester) THEN Abort(E_REQUESTER_CANNOT_ACCEPT)
    ELSE Ok([job EXCEPT !.worker = some(sender),
                        !.status = STATUS_ACCEPTED,
                        !.updated_at_ms = now_ms],
            <<>>,
            <<emit_job_accepted(job.id, sender, now_ms)>>)

\* Mutant of accept_job_internal: the time is written to created_at_ms.
accept_job_internal_stamps_created_at(job, sender, now_ms) ==
    IF ~(job.status = STATUS_CREATED) THEN Abort(E_INVALID_STATE)
    ELSE IF ~(sender # job.requester) THEN Abort(E_REQUESTER_CANNOT_ACCEPT)
    ELSE IF ~(now_ms <= job.deadline_ms) THEN Abort(E_JOB_ALREADY_EXPIRED)
    ELSE Ok([job EXCEPT !.worker = some(sender),
                        !.status = STATUS_ACCEPTED,
                        !.created_at_ms = now_ms,
                        !.updated_at_ms = now_ms],
            <<>>,
            <<emit_job_accepted(job.id, sender, now_ms)>>)

\* Mutant of accept_job_internal: the deadline is not checked.
accept_job_internal_no_deadline_check(job, sender, now_ms) ==
    IF ~(job.status = STATUS_CREATED) THEN Abort(E_INVALID_STATE)
    ELSE IF ~(sender # job.requester) THEN Abort(E_REQUESTER_CANNOT_ACCEPT)
    ELSE Ok([job EXCEPT !.worker = some(sender),
                        !.status = STATUS_ACCEPTED,
                        !.updated_at_ms = now_ms],
            <<>>,
            <<emit_job_accepted(job.id, sender, now_ms)>>)

\* Mutant of accept_job_internal: the status check is <= STATUS_ACCEPTED, so
\* an Accepted job can be accepted again.
accept_job_internal_until_submitted(job, sender, now_ms) ==
    IF ~(job.status <= STATUS_ACCEPTED) THEN Abort(E_INVALID_STATE)
    ELSE IF ~(sender # job.requester) THEN Abort(E_REQUESTER_CANNOT_ACCEPT)
    ELSE IF ~(now_ms <= job.deadline_ms) THEN Abort(E_JOB_ALREADY_EXPIRED)
    ELSE Ok([job EXCEPT !.worker = some(sender),
                        !.status = STATUS_ACCEPTED,
                        !.updated_at_ms = now_ms],
            <<>>,
            <<emit_job_accepted(job.id, sender, now_ms)>>)

\* Mutant of accept_job_internal: the deadline is compared with the shared
\* Clock read on the spot, and not with the time the caller supplied.
accept_job_internal_reads_clock(job, sender, now_ms) ==
    IF ~(job.status = STATUS_CREATED) THEN Abort(E_INVALID_STATE)
    ELSE IF ~(sender # job.requester) THEN Abort(E_REQUESTER_CANNOT_ACCEPT)
    ELSE IF ~(clock <= job.deadline_ms) THEN Abort(E_JOB_ALREADY_EXPIRED)
    ELSE Ok([job EXCEPT !.worker = some(sender),
                        !.status = STATUS_ACCEPTED,
                        !.updated_at_ms = now_ms],
            <<>>,
            <<emit_job_accepted(job.id, sender, now_ms)>>)

\* Mutant of accept_job_internal: the sender is not checked.
accept_job_internal_anyone(job, sender, now_ms) ==
    IF ~(job.status = STATUS_CREATED) THEN Abort(E_INVALID_STATE)
    ELSE IF ~(now_ms <= job.deadline_ms) THEN Abort(E_JOB_ALREADY_EXPIRED)
    ELSE Ok([job EXCEPT !.worker = some(sender),
                        !.status = STATUS_ACCEPTED,
                        !.updated_at_ms = now_ms],
            <<>>,
            <<emit_job_accepted(job.id, sender, now_ms)>>)

accept_job_internal(job, sender, now_ms) ==
    IF ~(job.status = STATUS_CREATED) THEN Abort(E_INVALID_STATE)
    ELSE IF ~(sender # job.requester) THEN Abort(E_REQUESTER_CANNOT_ACCEPT)
    ELSE IF ~(now_ms <= job.deadline_ms) THEN Abort(E_JOB_ALREADY_EXPIRED)
    ELSE Ok([job EXCEPT !.worker = some(sender),
                        !.status = STATUS_ACCEPTED,
                        !.updated_at_ms = now_ms],
            <<>>,
            <<emit_job_accepted(job.id, sender, now_ms)>>)

\* Mutant of submit_result_internal: the status check is >= STATUS_ACCEPTED.
submit_result_internal_from_accepted_on(job, sender, result_uri, result_hash, now_ms) ==
    IF ~(job.status >= STATUS_ACCEPTED) THEN Abort(E_INVALID_STATE)
    ELSE IF ~(now_ms <= job.deadline_ms) THEN Abort(E_JOB_ALREADY_EXPIRED)
    ELSE LET worker == borrow(job.worker) IN
    IF ~(worker = sender) THEN Abort(E_ONLY_WORKER_CAN_SUBMIT)
    ELSE Ok([job EXCEPT !.result_uri = some(result_uri),
                        !.result_hash = some(result_hash),
                        !.status = STATUS_SUBMITTED,
                        !.updated_at_ms = now_ms],
            <<>>,
            <<emit_result_submitted(job.id, sender, result_hash, now_ms)>>)

\* Mutant of submit_result_internal: the deadline comparison is <.
submit_result_internal_strict_deadline(job, sender, result_uri, result_hash, now_ms) ==
    IF ~(job.status = STATUS_ACCEPTED) THEN Abort(E_INVALID_STATE)
    ELSE IF ~(now_ms < job.deadline_ms) THEN Abort(E_JOB_ALREADY_EXPIRED)
    ELSE LET worker == borrow(job.worker) IN
    IF ~(worker = sender) THEN Abort(E_ONLY_WORKER_CAN_SUBMIT)
    ELSE Ok([job EXCEPT !.result_uri = some(result_uri),
                        !.result_hash = some(result_hash),
                        !.status = STATUS_SUBMITTED,
                        !.updated_at_ms = now_ms],
            <<>>,
            <<emit_result_submitted(job.id, sender, result_hash, now_ms)>>)

\* Mutant of submit_result_internal: result_hash is not stored.
submit_result_internal_no_hash(job, sender, result_uri, result_hash, now_ms) ==
    IF ~(job.status = STATUS_ACCEPTED) THEN Abort(E_INVALID_STATE)
    ELSE IF ~(now_ms <= job.deadline_ms) THEN Abort(E_JOB_ALREADY_EXPIRED)
    ELSE LET worker == borrow(job.worker) IN
    IF ~(worker = sender) THEN Abort(E_ONLY_WORKER_CAN_SUBMIT)
    ELSE Ok([job EXCEPT !.result_uri = some(result_uri),
                        !.status = STATUS_SUBMITTED,
                        !.updated_at_ms = now_ms],
            <<>>,
            <<emit_result_submitted(job.id, sender, result_hash, now_ms)>>)

\* Mutant of submit_result_internal: the deadline is not checked.
submit_result_internal_no_deadline_check(job, sender, result_uri, result_hash, now_ms) ==
    IF ~(job.status = STATUS_ACCEPTED) THEN Abort(E_INVALID_STATE)
    ELSE LET worker == borrow(job.worker) IN
    IF ~(worker = sender) THEN Abort(E_ONLY_WORKER_CAN_SUBMIT)
    ELSE Ok([job EXCEPT !.result_uri = some(result_uri),
                        !.result_hash = some(result_hash),
                        !.status = STATUS_SUBMITTED,
                        !.updated_at_ms = now_ms],
            <<>>,
            <<emit_result_submitted(job.id, sender, result_hash, now_ms)>>)

submit_result_internal(job, sender, result_uri, result_hash, now_ms) ==
    IF ~(job.status = STATUS_ACCEPTED) THEN Abort(E_INVALID_STATE)
    ELSE IF ~(now_ms <= job.deadline_ms) THEN Abort(E_JOB_ALREADY_EXPIRED)
    ELSE LET worker == borrow(job.worker) IN
    IF ~(worker = sender) THEN Abort(E_ONLY_WORKER_CAN_SUBMIT)
    ELSE Ok([job EXCEPT !.result_uri = some(result_uri),
                        !.result_hash = some(result_hash),
                        !.status = STATUS_SUBMITTED,
                        !.updated_at_ms = now_ms],
            <<>>,
            <<emit_result_submitted(job.id, sender, result_hash, now_ms)>>)

\* Mutant of settle_job_internal: updated_at_ms is not written.
settle_job_internal_no_timestamp(job, sender, now_ms) ==
    IF ~(job.status = STATUS_SUBMITTED) THEN Abort(E_INVALID_STATE)
    ELSE IF ~(sender = job.requester) THEN Abort(E_ONLY_REQUESTER_CAN_SETTLE)
    ELSE LET worker == borrow(job.worker)
             released == release_all_to(job.escrow, worker)
             payout == released.payout
         IN Ok([job EXCEPT !.escrow = released.escrow,
                           !.status = STATUS_SETTLED],
               released.transfers,
               <<emit_job_settled(job.id, sender, worker, payout, now_ms)>>)

\* Mutant of settle_job_internal: the escrow is released to the sender.
settle_job_internal_pays_sender(job, sender, now_ms) ==
    IF ~(job.status = STATUS_SUBMITTED) THEN Abort(E_INVALID_STATE)
    ELSE IF ~(sender = job.requester) THEN Abort(E_ONLY_REQUESTER_CAN_SETTLE)
    ELSE LET worker == borrow(job.worker)
             released == release_all_to(job.escrow, sender)
             payout == released.payout
         IN Ok([job EXCEPT !.escrow = released.escrow,
                           !.status = STATUS_SETTLED,
                           !.updated_at_ms = now_ms],
               released.transfers,
               <<emit_job_settled(job.id, sender, worker, payout, now_ms)>>)

\* Mutant of settle_job_internal: the sender is checked before the status.
settle_job_internal_sender_first(job, sender, now_ms) ==
    IF ~(sender = job.requester) THEN Abort(E_ONLY_REQUESTER_CAN_SETTLE)
    ELSE IF ~(job.status = STATUS_SUBMITTED) THEN Abort(E_INVALID_STATE)
    ELSE LET worker == borrow(job.worker)
             released == release_all_to(job.escrow, worker)
             payout == released.payout
         IN Ok([job EXCEPT !.escrow = released.escrow,
                           !.status = STATUS_SETTLED,
                           !.updated_at_ms = now_ms],
               released.transfers,
               <<emit_job_settled(job.id, sender, worker, payout, now_ms)>>)

\* Mutant of settle_job_internal: an expired job cannot be settled.
settle_job_internal_checks_deadline(job, sender, now_ms) ==
    IF ~(job.status = STATUS_SUBMITTED) THEN Abort(E_INVALID_STATE)
    ELSE IF ~(sender = job.requester) THEN Abort(E_ONLY_REQUESTER_CAN_SETTLE)
    ELSE IF ~(now_ms <= job.deadline_ms) THEN Abort(E_JOB_ALREADY_EXPIRED)
    ELSE LET worker == borrow(job.worker)
             released == release_all_to(job.escrow, worker)
             payout == released.payout
         IN Ok([job EXCEPT !.escrow = released.escrow,
                           !.status = STATUS_SETTLED,
                           !.updated_at_ms = now_ms],
               released.transfers,
               <<emit_job_settled(job.id, sender, worker, payout, now_ms)>>)

\* Mutant of settle_job_internal: the worker is taken out of the option
\* (option::extract) instead of being read.
settle_job_internal_extracts_worker(job, sender, now_ms) ==
    IF ~(job.status = STATUS_SUBMITTED) THEN Abort(E_INVALID_STATE)
    ELSE IF ~(sender = job.requester) THEN Abort(E_ONLY_REQUESTER_CAN_SETTLE)
    ELSE LET worker == borrow(job.worker)
             released == release_all_to(job.escrow, worker)
             payout == released.payout
         IN Ok([job EXCEPT !.worker = none,
                           !.escrow = released.escrow,
                           !.status = STATUS_SETTLED,
                           !.updated_at_ms = now_ms],
               released.transfers,
               <<emit_job_settled(job.id, sender, worker, payout, now_ms)>>)

\* Mutant of settle_job_internal: the status check is >= STATUS_SUBMITTED.
settle_job_internal_from_submitted_on(job, sender, now_ms) ==
    IF ~(job.status >= STATUS_SUBMITTED) THEN Abort(E_INVALID_STATE)
    ELSE IF ~(sender = job.requester) THEN Abort(E_ONLY_REQUESTER_CAN_SETTLE)
    ELSE LET worker == borrow(job.worker)
             released == release_all_to(job.escrow, worker)
             payout == released.payout
         IN Ok([job EXCEPT !.escrow = released.escrow,
                           !.status = STATUS_SETTLED,
                           !.updated_at_ms = now_ms],
               released.transfers,
               <<emit_job_settled(job.id, sender, worker, payout, now_ms)>>)

settle_job_internal(job, sender, now_ms) ==
    IF ~(job.status = STATUS_SUBMITTED) THEN Abort(E_INVALID_STATE)
    ELSE IF ~(sender = job.requester) THEN Abort(E_ONLY_REQUESTER_CAN_SETTLE)
    ELSE LET worker == borrow(job.worker)
             released == release_all_to(job.escrow, worker)
             payout == released.payout
         IN Ok([job EXCEPT !.escrow = released.escrow,
                           !.status = STATUS_SETTLED,
                           !.updated_at_ms = now_ms],
               released.transfers,
               <<emit_job_settled(job.id, sender, worker, payout, now_ms)>>)

\* Mutant of refund_job_internal: the status is not checked.
refund_job_internal_any_state(job, sender, now_ms) ==
    IF ~(sender = job.requester) THEN Abort(E_ONLY_REQUESTER_CAN_REFUND)
    ELSE IF ~(now_ms > job.deadline_ms) THEN Abort(E_JOB_NOT_EXPIRED)
    ELSE LET released == refund_all_to(job.escrow, sender)
             refund == released.payout
         IN Ok([job EXCEPT !.escrow = released.escrow,
                           !.status = STATUS_REFUNDED,
                           !.updated_at_ms = now_ms],
               released.transfers,
               <<emit_job_refunded(job.id, sender, refund, now_ms)>>)

\* Mutant of refund_job_internal: the deadline comparison is >=.
refund_job_internal_inclusive(job, sender, now_ms) ==
    IF ~(job.status = STATUS_CREATED \/ job.status = STATUS_ACCEPTED
            \/ job.status = STATUS_SUBMITTED)
    THEN Abort(E_INVALID_STATE)
    ELSE IF ~(sender = job.requester) THEN Abort(E_ONLY_REQUESTER_CAN_REFUND)
    ELSE IF ~(now_ms >= job.deadline_ms) THEN Abort(E_JOB_NOT_EXPIRED)
    ELSE LET released == refund_all_to(job.escrow, sender)
             refund == released.payout
         IN Ok([job EXCEPT !.escrow = released.escrow,
                           !.status = STATUS_REFUNDED,
                           !.updated_at_ms = now_ms],
               released.transfers,
               <<emit_job_refunded(job.id, sender, refund, now_ms)>>)

\* Mutant of refund_job_internal: the deadline is checked before the sender.
refund_job_internal_expiry_first(job, sender, now_ms) ==
    IF ~(job.status = STATUS_CREATED \/ job.status = STATUS_ACCEPTED
            \/ job.status = STATUS_SUBMITTED)
    THEN Abort(E_INVALID_STATE)
    ELSE IF ~(now_ms > job.deadline_ms) THEN Abort(E_JOB_NOT_EXPIRED)
    ELSE IF ~(sender = job.requester) THEN Abort(E_ONLY_REQUESTER_CAN_REFUND)
    ELSE LET released == refund_all_to(job.escrow, sender)
             refund == released.payout
         IN Ok([job EXCEPT !.escrow = released.escrow,
                           !.status = STATUS_REFUNDED,
                           !.updated_at_ms = now_ms],
               released.transfers,
               <<emit_job_refunded(job.id, sender, refund, now_ms)>>)

\* Mutant of refund_job_internal: updated_at_ms is set to the deadline.
refund_job_internal_stamps_deadline(job, sender, now_ms) ==
    IF ~(job.status = STATUS_CREATED \/ job.status = STATUS_ACCEPTED
            \/ job.status = STATUS_SUBMITTED)
    THEN Abort(E_INVALID_STATE)
    ELSE IF ~(sender = job.requester) THEN Abort(E_ONLY_REQUESTER_CAN_REFUND)
    ELSE IF ~(now_ms > job.deadline_ms) THEN Abort(E_JOB_NOT_EXPIRED)
    ELSE LET released == refund_all_to(job.escrow, sender)
             refund == released.payout
         IN Ok([job EXCEPT !.escrow = released.escrow,
                           !.status = STATUS_REFUNDED,
                           !.updated_at_ms = job.deadline_ms],
               released.transfers,
               <<emit_job_refunded(job.id, sender, refund, now_ms)>>)

\* Mutant of refund_job_internal: no event is emitted.
refund_job_internal_silent(job, sender, now_ms) ==
    IF ~(job.status = STATUS_CREATED \/ job.status = STATUS_ACCEPTED
            \/ job.status = STATUS_SUBMITTED)
    THEN Abort(E_INVALID_STATE)
    ELSE IF ~(sender = job.requester) THEN Abort(E_ONLY_REQUESTER_CAN_REFUND)
    ELSE IF ~(now_ms > job.deadline_ms) THEN Abort(E_JOB_NOT_EXPIRED)
    ELSE LET released == refund_all_to(job.escrow, sender)
             refund == released.payout
         IN Ok([job EXCEPT !.escrow = released.escrow,
                           !.status = STATUS_REFUNDED,
                           !.updated_at_ms = now_ms],
               released.transfers,
               <<>>)

\* Mutant of refund_job_internal: only a Created job can be refunded.
refund_job_internal_only_created(job, sender, now_ms) ==
    IF ~(job.status = STATUS_CREATED) THEN Abort(E_INVALID_STATE)
    ELSE IF ~(sender = job.requester) THEN Abort(E_ONLY_REQUESTER_CAN_REFUND)
    ELSE IF ~(now_ms > job.deadline_ms) THEN Abort(E_JOB_NOT_EXPIRED)
    ELSE LET released == refund_all_to(job.escrow, sender)
             refund == released.payout
         IN Ok([job EXCEPT !.escrow = released.escrow,
                           !.status = STATUS_REFUNDED,
                           !.updated_at_ms = now_ms],
               released.transfers,
               <<emit_job_refunded(job.id, sender, refund, now_ms)>>)

refund_job_internal(job, sender, now_ms) ==
    IF ~(job.status = STATUS_CREATED \/ job.status = STATUS_ACCEPTED
            \/ job.status = STATUS_SUBMITTED)
    THEN Abort(E_INVALID_STATE)
    ELSE IF ~(sender = job.requester) THEN Abort(E_ONLY_REQUESTER_CAN_REFUND)
    ELSE IF ~(now_ms > job.deadline_ms) THEN Abort(E_JOB_NOT_EXPIRED)
    ELSE LET released == refund_all_to(job.escrow, sender)
             refund == released.payout
         IN Ok([job EXCEPT !.escrow = released.escrow,
                           !.status = STATUS_REFUNDED,
                           !.updated_at_ms = now_ms],
               released.transfers,
               <<emit_job_refunded(job.id, sender, refund, now_ms)>>)

\* ------------------------------------------------------------ transactions
\* The coins a transaction on job job_id transferred, tagged with the job
\* whose escrow they left.
Tagged(job_id, trs) ==
    [i \in 1..Len(trs) |-> [job_id |-> job_id,
                            recipient |-> trs[i].recipient,
                            amount |-> trs[i].amount]]

\* Mutant of Commit: a committed transaction also writes the time to
\* updated_at_ms of every other job.
Commit_stamps_every_job(op, job_id, sender, args, r) ==
    /\ last' = [op |-> op, job_id |-> job_id, sender |-> sender, args |-> args,
                code |-> r.abort]
    /\ IF r.abort = 0
       THEN /\ jobs' = [i \in DOMAIN jobs |->
                           IF i = job_id THEN r.job
                           ELSE [jobs[i] EXCEPT !.updated_at_ms = clock]]
            /\ transfers' = transfers \o Tagged(job_id, r.transfers)
            /\ events' = events \o r.events
       ELSE UNCHANGED <<jobs, transfers, events>>
    /\ UNCHANGED clock

\* A transaction on an existing job commits the result r of its function, or
\* aborts and leaves every object, the event stream and all coins untouched.
Commit(op, job_id, sender, args, r) ==
    /\ last' = [op |-> op, job_id |-> job_id, sender |-> sender, args |-> args,
                code |-> r.abort]
    /\ IF r.abort = 0
       THEN /\ jobs' = [jobs EXCEPT ![job_id] = r.job]
            /\ transfers' = transfers \o Tagged(job_id, r.transfers)
            /\ events' = events \o r.events
       ELSE UNCHANGED <<jobs, transfers, events>>
    /\ UNCHANGED clock

Init ==
    /\ jobs = <<>>
    /\ clock = 0
    /\ events = <<>>
    /\ transfers = <<>>
    /\ last = [op |-> "none", job_id |-> 0, sender |-> "", args |-> <<>>, code |-> 0]

\* create_job: the new job is shared under a fresh id.
create_job(sender, description, deadline_ms, payment) ==
    /\ LET job_id == Len(jobs) + 1
           r == create_job_internal(job_id, sender, description, deadline_ms,
                                    payment, clock)
       IN /\ last' = [op |-> "create_job", job_id |-> job_id, sender |-> sender,
                      args |-> <<description, deadline_ms, payment>>,
                      code |-> r.abort]
          /\ IF r.abort = 0
             THEN /\ jobs' = Append(jobs, r.job)
                  /\ events' = events \o r.events
             ELSE UNCHANGED <<jobs, events>>
    /\ UNCHANGED <<clock, transfers>>

accept_job(job_id, sender) ==
    /\ job_id \in DOMAIN jobs
    /\ Commit("accept_job", job_id, sender, <<>>,
              accept_job_internal(jobs[job_id], sender, clock))

submit_result(job_id, sender, result_uri, result_hash) ==
    /\ job_id \in DOMAIN jobs
    /\ Commit("submit_result", job_id, sender, <<>>,
              submit_result_internal(jobs[job_id], sender, result_uri, result_hash, clock))

settle_job(job_id, sender) ==
    /\ job_id \in DOMAIN jobs
    /\ Commit("settle_job", job_id, sender, <<>>,
              settle_job_internal(jobs[job_id], sender, clock))

refund_job(job_id, sender) ==
    /\ job_id \in DOMAIN jobs
    /\ Commit("refund_job", job_id, sender, <<>>,
              refund_job_internal(jobs[job_id], sender, clock))

\* The shared Clock advances between transactions; it never goes back.
Tick ==
    /\ clock < MaxTime
    /\ clock' = clock + 1
    /\ last' = [op |-> "none", job_id |-> 0, sender |-> "", args |-> <<>>, code |-> 0]
    /\ UNCHANGED <<jobs, events, transfers>>

\* The lifecycle of one Job object: every function of the module takes a single
\* &mut Job, so a transaction on one job reads and writes no other job.
Next ==
    \/ /\ jobs = <<>>
       /\ \E s \in Addresses, d \in Descriptions, dl \in Deadlines, p \in CoinValues :
             create_job(s, d, dl, p)
    \/ \E j \in JobIds, s \in Addresses : accept_job(j, s)
    \/ \E j \in JobIds, s \in Addresses, u \in ResultUris, h \in ResultHashes :
          submit_result(j, s, u, h)
    \/ \E j \in JobIds, s \in Addresses : settle_job(j, s)
    \/ \E j \in JobIds, s \in Addresses : refund_job(j, s)
    \/ Tick

Spec == Init /\ [][Next]_vars

\* ------------------------------------------------------ reading the state
\* The statuses no edge leaves, and the others.
Terminal(job) == job.status = STATUS_SETTLED \/ job.status = STATUS_REFUNDED
NonTerminal(job) ==
    job.status = STATUS_CREATED \/ job.status = STATUS_ACCEPTED
        \/ job.status = STATUS_SUBMITTED

\* The entry functions that act on an existing job.
JobOps == {"accept_job", "submit_result", "settle_job", "refund_job"}

\* The positions in the transfer log of the coins that left job_id's escrow.
PayoutsOf(job_id) == {i \in DOMAIN transfers : transfers[i].job_id = job_id}

\* The events of job_id, in emission order, and their types.
HistoryOf(job_id) == SelectSeq(events, LAMBDA e : e.job_id = job_id)
KindsOf(job_id) == [i \in DOMAIN HistoryOf(job_id) |-> HistoryOf(job_id)[i].type]
HasEvent(job_id, type) == \E i \in DOMAIN events :
    events[i].job_id = job_id /\ events[i].type = type

\* The latest step was a call of op on job_id that ended with code.
Called(op, job_id, code) ==
    last.op = op /\ last.job_id = job_id /\ last.code = code

\* ------------------------------------------------------------------ C1
\* C1: a job that is Created, Accepted or Submitted has had no payout; a
\* Settled job has had exactly one payout, to its worker and not to its
\* requester; a Refunded job has had exactly one payout, to its requester and
\* not to its worker.
C1_ExactlyOnePayout ==
    \A j \in DOMAIN jobs :
        LET job == jobs[j]
            paid == PayoutsOf(j)
        IN /\ NonTerminal(job) => paid = {}
           /\ job.status = STATUS_SETTLED =>
                 /\ Cardinality(paid) = 1
                 /\ \A i \in paid : /\ transfers[i].recipient = borrow(job.worker)
                                    /\ transfers[i].recipient # job.requester
           /\ job.status = STATUS_REFUNDED =>
                 /\ Cardinality(paid) = 1
                 /\ \A i \in paid : /\ transfers[i].recipient = job.requester
                                    /\ is_some(job.worker) =>
                                          transfers[i].recipient # borrow(job.worker)

C1_Witness ==
    \E j \in DOMAIN jobs :
        /\ jobs[j].status = STATUS_SETTLED
        /\ Called("settle_job", j, 0)
        /\ \E i \in PayoutsOf(j) : transfers[i].recipient = borrow(jobs[j].worker)

\* ------------------------------------------------------------------ C2
\* C2: the escrow balance is the budget while the job is Created, Accepted or
\* Submitted and 0 while it is Settled or Refunded.
C2_EscrowBalance ==
    \A j \in DOMAIN jobs :
        /\ NonTerminal(jobs[j]) => jobs[j].escrow = jobs[j].budget
        /\ Terminal(jobs[j]) => jobs[j].escrow = 0
        /\ jobs[j].escrow \in {0, jobs[j].budget}

C2_Witness ==
    \E j \in DOMAIN jobs :
        /\ jobs[j].status = STATUS_REFUNDED
        /\ jobs[j].budget = MaxBudget
        /\ jobs[j].escrow = 0

\* ------------------------------------------------------------------ C3
\* The six edges of the lifecycle, each with the function that takes it.
Edges ==
    { <<STATUS_CREATED, STATUS_ACCEPTED, "accept_job">>,
      <<STATUS_ACCEPTED, STATUS_SUBMITTED, "submit_result">>,
      <<STATUS_SUBMITTED, STATUS_SETTLED, "settle_job">>,
      <<STATUS_CREATED, STATUS_REFUNDED, "refund_job">>,
      <<STATUS_ACCEPTED, STATUS_REFUNDED, "refund_job">>,
      <<STATUS_SUBMITTED, STATUS_REFUNDED, "refund_job">> }

\* The statuses a job has held, read off its history, in the order it held them.
StatusOfKind(type) ==
    CASE type = "JobCreated" -> STATUS_CREATED
      [] type = "JobAccepted" -> STATUS_ACCEPTED
      [] type = "ResultSubmitted" -> STATUS_SUBMITTED
      [] type = "JobSettled" -> STATUS_SETTLED
      [] type = "JobRefunded" -> STATUS_REFUNDED
StatusesHeld(job_id) ==
    [i \in DOMAIN KindsOf(job_id) |-> StatusOfKind(KindsOf(job_id)[i])]

\* C3: a successful call on a job changes its status along one of the six
\* edges, by the function of that edge; the status changes in no other step;
\* and the statuses a job has held are pairwise different and end with the
\* status it has now.
C3_ForwardEdges ==
    /\ [][\A j \in DOMAIN jobs :
            /\ j \in DOMAIN jobs'
            /\ jobs'[j].status # jobs[j].status =>
                  /\ <<jobs[j].status, jobs'[j].status, last'.op>> \in Edges
                  /\ last'.job_id = j
                  /\ last'.code = 0
            /\ (last'.op \in JobOps /\ last'.job_id = j /\ last'.code = 0) =>
                  <<jobs[j].status, jobs'[j].status, last'.op>> \in Edges]_vars
    /\ [](\A j \in DOMAIN jobs :
            LET held == StatusesHeld(j) IN
            /\ Len(held) >= 1
            /\ held[Len(held)] = jobs[j].status
            /\ \A a, b \in DOMAIN held : a # b => held[a] # held[b])

C3_Witness ==
    \E j \in DOMAIN jobs :
        /\ StatusesHeld(j) = <<STATUS_CREATED, STATUS_ACCEPTED, STATUS_SUBMITTED,
                               STATUS_REFUNDED>>
        /\ jobs[j].status = STATUS_REFUNDED

\* ------------------------------------------------------------------ C4
\* C4: every accept_job, submit_result, settle_job and refund_job on a job
\* that is Settled or Refunded aborts with E_INVALID_STATE and changes
\* neither the job nor the events nor the transfers.
C4_TerminalRejectsAll ==
    [][\A j \in DOMAIN jobs :
          (Terminal(jobs[j]) /\ last'.op \in JobOps /\ last'.job_id = j) =>
              /\ last'.code = E_INVALID_STATE
              /\ UNCHANGED <<jobs, events, transfers>>]_vars

C4_Witness ==
    \E j \in DOMAIN jobs :
        /\ jobs[j].status = STATUS_SETTLED
        /\ Called("refund_job", j, E_INVALID_STATE)
        /\ last.sender = jobs[j].requester
        /\ clock > jobs[j].deadline_ms

\* ------------------------------------------------------------------ C5
\* The event stream records that op on job_id, sent by sender, has succeeded.
Succeeded(op, job_id, sender) ==
    \E i \in DOMAIN events :
        LET e == events[i] IN
        /\ e.job_id = job_id
        /\ \/ op = "accept_job" /\ e.type = "JobAccepted" /\ e.worker = sender
           \/ op = "submit_result" /\ e.type = "ResultSubmitted" /\ e.worker = sender
           \/ op = "settle_job" /\ e.type = "JobSettled" /\ e.requester = sender
           \/ op = "refund_job" /\ e.type = "JobRefunded" /\ e.requester = sender

\* C5: a call of accept_job, submit_result, settle_job or refund_job that has
\* already succeeded on the job for the same sender aborts with
\* E_INVALID_STATE, transfers nothing and leaves the job as it was.
C5_ReplayRejected ==
    [][\A j \in DOMAIN jobs :
          (last'.op \in JobOps /\ last'.job_id = j
              /\ Succeeded(last'.op, j, last'.sender)) =>
              /\ last'.code = E_INVALID_STATE
              /\ transfers' = transfers
              /\ jobs' = jobs]_vars

C5_Witness ==
    \E j \in DOMAIN jobs :
        /\ Called("settle_job", j, E_INVALID_STATE)
        /\ Succeeded("settle_job", j, last.sender)
        /\ Cardinality(PayoutsOf(j)) = 1

\* ------------------------------------------------------------------ C6
\* C6: a call that aborts changes no job, emits no event and moves no funds;
\* a call on a job that succeeds changes the status, writes updated_at_ms,
\* appends exactly one event of that job, and pays the escrow out exactly when
\* it is settle_job or refund_job.
C6_AllOrNothing ==
    [][/\ last'.code # 0 => UNCHANGED <<jobs, events, transfers>>
       /\ \A j \in DOMAIN jobs :
             (last'.op \in JobOps /\ last'.job_id = j /\ last'.code = 0) =>
                 /\ jobs'[j].status # jobs[j].status
                 /\ jobs'[j].updated_at_ms = clock
                 /\ Len(events') = Len(events) + 1
                 /\ SubSeq(events', 1, Len(events)) = events
                 /\ events'[Len(events')].job_id = j
                 /\ last'.op = "accept_job" =>
                       is_some(jobs'[j].worker) /\ transfers' = transfers
                 /\ last'.op = "submit_result" =>
                       /\ is_some(jobs'[j].result_uri)
                       /\ is_some(jobs'[j].result_hash)
                       /\ transfers' = transfers
                 /\ last'.op \in {"settle_job", "refund_job"} =>
                       /\ Len(transfers') = Len(transfers) + 1
                       /\ SubSeq(transfers', 1, Len(transfers)) = transfers
                       /\ transfers'[Len(transfers')].amount = jobs[j].escrow
                       /\ jobs'[j].escrow = 0]_vars

C6_Witness ==
    \E j \in DOMAIN jobs :
        /\ Called("submit_result", j, E_ONLY_WORKER_CAN_SUBMIT)
        /\ jobs[j].status = STATUS_ACCEPTED
        /\ is_none(jobs[j].result_uri)
        /\ Len(HistoryOf(j)) = 2

\* ------------------------------------------------------------------ C7
\* C7 as stated: worker is unset if and only if the status is Created.
C7_WorkerUnsetIffCreated ==
    \A j \in DOMAIN jobs :
        is_none(jobs[j].worker) <=> jobs[j].status = STATUS_CREATED

\* C7 as amended: worker is unset if and only if the job has never been
\* accepted, that is, its status is Created, or it is Refunded and was
\* refunded from Created.
C7_WorkerUnsetIffNeverAccepted ==
    \A j \in DOMAIN jobs :
        is_none(jobs[j].worker) <=>
            \/ jobs[j].status = STATUS_CREATED
            \/ jobs[j].status = STATUS_REFUNDED /\ ~HasEvent(j, "JobAccepted")

C7_Witness ==
    \E j \in DOMAIN jobs :
        /\ jobs[j].status = STATUS_REFUNDED
        /\ is_none(jobs[j].worker)
        /\ Called("refund_job", j, 0)

\* ------------------------------------------------------------------ C8
\* C8 as stated: result_uri and result_hash are set if and only if the status
\* is Submitted or Settled.
C8_ResultSetIffSubmittedOrSettled ==
    \A j \in DOMAIN jobs :
        (is_some(jobs[j].result_uri) /\ is_some(jobs[j].result_hash)) <=>
            jobs[j].status \in {STATUS_SUBMITTED, STATUS_SETTLED}

\* C8 as amended: result_uri and result_hash are set together, and they are set
\* if and only if a result has been submitted, that is, the status is
\* Submitted or Settled, or it is Refunded and the job was refunded from
\* Submitted.
C8_ResultSetIffEverSubmitted ==
    \A j \in DOMAIN jobs :
        /\ is_some(jobs[j].result_uri) <=> is_some(jobs[j].result_hash)
        /\ is_some(jobs[j].result_uri) <=>
              \/ jobs[j].status \in {STATUS_SUBMITTED, STATUS_SETTLED}
              \/ jobs[j].status = STATUS_REFUNDED /\ HasEvent(j, "ResultSubmitted")

C8_Witness ==
    \E j \in DOMAIN jobs :
        /\ jobs[j].status = STATUS_REFUNDED
        /\ is_some(jobs[j].result_uri)
        /\ is_some(jobs[j].result_hash)
        /\ Called("refund_job", j, 0)

\* ------------------------------------------------------------------ C9
\* C9: refund_job by the requester on a job that is Created, Accepted or
\* Submitted aborts with E_JOB_NOT_EXPIRED at every time <= deadline_ms and
\* succeeds at deadline_ms + 1; no refund_job succeeds at a time <=
\* deadline_ms, whatever the status and the sender.
C9_RefundStrictlyAfterDeadline ==
    [][\A j \in DOMAIN jobs :
          (last'.op = "refund_job" /\ last'.job_id = j) =>
              /\ last'.code = 0 => clock > jobs[j].deadline_ms
              /\ (NonTerminal(jobs[j]) /\ last'.sender = jobs[j].requester
                      /\ clock <= jobs[j].deadline_ms) =>
                    last'.code = E_JOB_NOT_EXPIRED
              /\ (NonTerminal(jobs[j]) /\ last'.sender = jobs[j].requester
                      /\ clock = jobs[j].deadline_ms + 1) =>
                    last'.code = 0 /\ jobs'[j].status = STATUS_REFUNDED]_vars

C9_Witness ==
    \E j \in DOMAIN jobs :
        /\ Called("refund_job", j, E_JOB_NOT_EXPIRED)
        /\ last.sender = jobs[j].requester
        /\ clock = jobs[j].deadline_ms
        /\ NonTerminal(jobs[j])

\* ------------------------------------------------------------------ C10
\* C10: refund_job by the requester after the deadline succeeds from Created,
\* from Accepted and from Submitted; a successful refund_job transfers the
\* whole escrow, which is the budget, to the requester and nothing to anyone
\* else, sets the status to Refunded and updated_at_ms to the time of the
\* call, changes nothing else of the job, and emits one JobRefunded carrying
\* the amount; refund_job by any other sender on a job that is not Settled or
\* Refunded aborts with E_ONLY_REQUESTER_CAN_REFUND.
C10_RefundEffects ==
    [][\A j \in DOMAIN jobs :
          (last'.op = "refund_job" /\ last'.job_id = j) =>
              /\ (NonTerminal(jobs[j]) /\ last'.sender = jobs[j].requester
                      /\ clock > jobs[j].deadline_ms) =>
                    last'.code = 0
              /\ (NonTerminal(jobs[j]) /\ last'.sender # jobs[j].requester) =>
                    last'.code = E_ONLY_REQUESTER_CAN_REFUND
              /\ last'.code = 0 =>
                    /\ jobs' = [jobs EXCEPT ![j] =
                                  [jobs[j] EXCEPT !.status = STATUS_REFUNDED,
                                                  !.updated_at_ms = clock,
                                                  !.escrow = 0]]
                    /\ transfers' = Append(transfers,
                                           [job_id |-> j,
                                            recipient |-> jobs[j].requester,
                                            amount |-> jobs[j].budget])
                    /\ events' = Append(events,
                                        [type |-> "JobRefunded",
                                         job_id |-> j,
                                         requester |-> jobs[j].requester,
                                         refund |-> jobs[j].budget,
                                         refunded_at_ms |-> clock])]_vars

C10_Witness ==
    \E j \in DOMAIN jobs :
        /\ Called("refund_job", j, 0)
        /\ KindsOf(j) = <<"JobCreated", "JobAccepted", "ResultSubmitted", "JobRefunded">>
        /\ jobs[j].budget = MaxBudget
        /\ \E i \in PayoutsOf(j) : transfers[i].amount = MaxBudget

\* ------------------------------------------------------------------ C11
\* C11: settle_job succeeds exactly when the job is Submitted and the sender is
\* its requester; a successful settle_job transfers the whole escrow, which is
\* the budget, to the worker, leaves the escrow at 0, sets the status to
\* Settled and updated_at_ms to the time of the call, changes nothing else of
\* the job, and emits one JobSettled carrying the amount; settle_job by any
\* other sender on a Submitted job aborts with E_ONLY_REQUESTER_CAN_SETTLE.
C11_SettleEffects ==
    [][\A j \in DOMAIN jobs :
          (last'.op = "settle_job" /\ last'.job_id = j) =>
              /\ last'.code = 0 <=>
                    (jobs[j].status = STATUS_SUBMITTED
                        /\ last'.sender = jobs[j].requester)
              /\ (jobs[j].status = STATUS_SUBMITTED
                      /\ last'.sender # jobs[j].requester) =>
                    last'.code = E_ONLY_REQUESTER_CAN_SETTLE
              /\ last'.code = 0 =>
                    /\ jobs[j].escrow = jobs[j].budget
                    /\ jobs' = [jobs EXCEPT ![j] =
                                  [jobs[j] EXCEPT !.status = STATUS_SETTLED,
                                                  !.updated_at_ms = clock,
                                                  !.escrow = 0]]
                    /\ transfers' = Append(transfers,
                                           [job_id |-> j,
                                            recipient |-> borrow(jobs[j].worker),
                                            amount |-> jobs[j].escrow])
                    /\ events' = Append(events,
                                        [type |-> "JobSettled",
                                         job_id |-> j,
                                         requester |-> jobs[j].requester,
                                         worker |-> borrow(jobs[j].worker),
                                         payout |-> jobs[j].budget,
                                         settled_at_ms |-> clock])]_vars

C11_Witness ==
    \E j \in DOMAIN jobs :
        /\ Called("settle_job", j, 0)
        /\ jobs[j].budget = MaxBudget
        /\ jobs[j].escrow = 0
        /\ transfers = <<[job_id |-> j, recipient |-> borrow(jobs[j].worker),
                          amount |-> MaxBudget]>>
        /\ KindsOf(j) = <<"JobCreated", "JobAccepted", "ResultSubmitted", "JobSettled">>

\* ------------------------------------------------------------------ C12
\* The timestamps the Clock takes.
Times == 0..MaxTime

\* C12: on a Submitted job settle_job by the requester succeeds at every time,
\* before and after the deadline; so on a Submitted job whose deadline has
\* passed the requester can both settle and refund.
C12_SettleIgnoresDeadline ==
    /\ [](\A j \in DOMAIN jobs :
            jobs[j].status = STATUS_SUBMITTED =>
                /\ \A t \in Times :
                      settle_job_internal(jobs[j], jobs[j].requester, t).abort = 0
                /\ clock > jobs[j].deadline_ms =>
                      /\ settle_job_internal(jobs[j], jobs[j].requester, clock).abort = 0
                      /\ refund_job_internal(jobs[j], jobs[j].requester, clock).abort = 0)
    /\ [][\A j \in DOMAIN jobs :
            (last'.op = "settle_job" /\ last'.job_id = j
                /\ jobs[j].status = STATUS_SUBMITTED
                /\ last'.sender = jobs[j].requester) =>
                /\ last'.code = 0
                /\ jobs'[j].status = STATUS_SETTLED]_vars

C12_Witness ==
    \E j \in DOMAIN jobs :
        /\ Called("settle_job", j, 0)
        /\ jobs[j].status = STATUS_SETTLED
        /\ jobs[j].updated_at_ms > jobs[j].deadline_ms

\* ------------------------------------------------------------------ C13
\* C13: accept_job succeeds exactly when the job is Created, the sender is not
\* its requester and the time is <= deadline_ms; a successful accept_job sets
\* worker to the sender, the status to Accepted and updated_at_ms to the time
\* of the call, changes nothing else of the job (the escrow included),
\* transfers nothing and emits one JobAccepted.
C13_AcceptEffects ==
    [][\A j \in DOMAIN jobs :
          (last'.op = "accept_job" /\ last'.job_id = j) =>
              /\ last'.code = 0 <=>
                    (jobs[j].status = STATUS_CREATED
                        /\ last'.sender # jobs[j].requester
                        /\ clock <= jobs[j].deadline_ms)
              /\ last'.code = 0 =>
                    /\ jobs' = [jobs EXCEPT ![j] =
                                  [jobs[j] EXCEPT !.worker = some(last'.sender),
                                                  !.status = STATUS_ACCEPTED,
                                                  !.updated_at_ms = clock]]
                    /\ jobs'[j].escrow = jobs[j].budget
                    /\ transfers' = transfers
                    /\ events' = Append(events,
                                        [type |-> "JobAccepted",
                                         job_id |-> j,
                                         worker |-> last'.sender,
                                         accepted_at_ms |-> clock])]_vars

C13_Witness ==
    \E j \in DOMAIN jobs :
        /\ Called("accept_job", j, 0)
        /\ jobs[j].status = STATUS_ACCEPTED
        /\ jobs[j].worker = some(last.sender)
        /\ jobs[j].updated_at_ms > jobs[j].created_at_ms
        /\ jobs[j].escrow = MaxBudget
        /\ KindsOf(j) = <<"JobCreated", "JobAccepted">>

\* ------------------------------------------------------------------ C14
\* C14: accept_job sent by the requester of a Created job aborts with
\* E_REQUESTER_CANNOT_ACCEPT at every time, before and after the deadline,
\* and the job stays Created with no worker.
C14_SelfAcceptRejected ==
    [][\A j \in DOMAIN jobs :
          (last'.op = "accept_job" /\ last'.job_id = j
              /\ jobs[j].status = STATUS_CREATED
              /\ last'.sender = jobs[j].requester) =>
              /\ last'.code = E_REQUESTER_CANNOT_ACCEPT
              /\ jobs'[j].status = STATUS_CREATED
              /\ is_none(jobs'[j].worker)
              /\ UNCHANGED <<jobs, events, transfers>>]_vars

C14_Witness ==
    \E j \in DOMAIN jobs :
        /\ Called("accept_job", j, E_REQUESTER_CANNOT_ACCEPT)
        /\ last.sender = jobs[j].requester
        /\ clock > jobs[j].deadline_ms
        /\ jobs[j].status = STATUS_CREATED
        /\ is_none(jobs[j].worker)

\* ------------------------------------------------------------------ C15
\* C15: submit_result on an Accepted job by a sender other than its worker
\* (the requester included) aborts with E_ONLY_WORKER_CAN_SUBMIT; the job stays
\* Accepted with no result, and no event is emitted.
C15_WrongSubmitterRejected ==
    [][\A j \in DOMAIN jobs :
          (last'.op = "submit_result" /\ last'.job_id = j
              /\ jobs[j].status = STATUS_ACCEPTED
              /\ last'.sender # borrow(jobs[j].worker)) =>
              /\ last'.code = E_ONLY_WORKER_CAN_SUBMIT
              /\ jobs'[j].status = STATUS_ACCEPTED
              /\ is_none(jobs'[j].result_uri)
              /\ is_none(jobs'[j].result_hash)
              /\ events' = events]_vars

\* ------------------------------------------------------------------ C16
\* C16: in accept_job and submit_result the sender is checked before the
\* deadline: past the deadline, accept_job by the requester on a Created job
\* aborts with E_REQUESTER_CANNOT_ACCEPT, and submit_result by a sender other
\* than the worker on an Accepted job aborts with E_ONLY_WORKER_CAN_SUBMIT;
\* neither aborts with E_JOB_ALREADY_EXPIRED.
C16_SenderCheckedBeforeDeadline ==
    [][\A j \in DOMAIN jobs :
          /\ (last'.op = "accept_job" /\ last'.job_id = j
                 /\ jobs[j].status = STATUS_CREATED
                 /\ last'.sender = jobs[j].requester
                 /\ clock > jobs[j].deadline_ms) =>
                last'.code = E_REQUESTER_CANNOT_ACCEPT
          /\ (last'.op = "submit_result" /\ last'.job_id = j
                 /\ jobs[j].status = STATUS_ACCEPTED
                 /\ last'.sender # borrow(jobs[j].worker)
                 /\ clock > jobs[j].deadline_ms) =>
                last'.code = E_ONLY_WORKER_CAN_SUBMIT]_vars

\* ------------------------------------------------------------------ C17
\* The statuses each entry function requires of the job.
RequiredStatuses(op) ==
    CASE op = "accept_job" -> {STATUS_CREATED}
      [] op = "submit_result" -> {STATUS_ACCEPTED}
      [] op = "settle_job" -> {STATUS_SUBMITTED}
      [] op = "refund_job" -> {STATUS_CREATED, STATUS_ACCEPTED, STATUS_SUBMITTED}

\* C17: accept_job, submit_result, settle_job and refund_job on a job whose
\* status is not one the function requires abort with E_INVALID_STATE,
\* whoever the sender is and whatever the time is.
C17_StatusCheckedFirst ==
    [][\A j \in DOMAIN jobs :
          (last'.op \in JobOps /\ last'.job_id = j
              /\ jobs[j].status \notin RequiredStatuses(last'.op)) =>
              last'.code = E_INVALID_STATE]_vars

C17_Witness ==
    \E j \in DOMAIN jobs :
        /\ Called("accept_job", j, E_INVALID_STATE)
        /\ jobs[j].status = STATUS_ACCEPTED
        /\ last.sender = jobs[j].requester
        /\ clock > jobs[j].deadline_ms

\* ------------------------------------------------------------------ C18
\* C18: accept_job by a sender other than the requester on a Created job, and
\* submit_result by the worker on an Accepted job, succeed at time ==
\* deadline_ms and abort with E_JOB_ALREADY_EXPIRED at every later time; so at
\* time == deadline_ms they are enabled and the requester's refund_job is not,
\* and at time == deadline_ms + 1 it is the reverse.
C18_InclusiveDeadline ==
    /\ [][\A j \in DOMAIN jobs :
            /\ (last'.op = "accept_job" /\ last'.job_id = j
                   /\ jobs[j].status = STATUS_CREATED
                   /\ last'.sender # jobs[j].requester) =>
                  /\ clock = jobs[j].deadline_ms => last'.code = 0
                  /\ clock > jobs[j].deadline_ms =>
                        last'.code = E_JOB_ALREADY_EXPIRED
            /\ (last'.op = "submit_result" /\ last'.job_id = j
                   /\ jobs[j].status = STATUS_ACCEPTED
                   /\ last'.sender = borrow(jobs[j].worker)) =>
                  /\ clock = jobs[j].deadline_ms => last'.code = 0
                  /\ clock > jobs[j].deadline_ms =>
                        last'.code = E_JOB_ALREADY_EXPIRED]_vars
    /\ [](\A j \in DOMAIN jobs :
            LET job == jobs[j]
                accepts == {accept_job_internal(job, s, clock).abort :
                               s \in Addresses \ {job.requester}}
                submits == {submit_result_internal(job, borrow(job.worker),
                                                   u, h, clock).abort :
                               u \in ResultUris, h \in ResultHashes}
                refunds == refund_job_internal(job, job.requester, clock).abort
            IN /\ (job.status = STATUS_CREATED /\ clock = job.deadline_ms) =>
                      accepts = {0} /\ refunds = E_JOB_NOT_EXPIRED
               /\ (job.status = STATUS_ACCEPTED /\ clock = job.deadline_ms) =>
                      submits = {0} /\ refunds = E_JOB_NOT_EXPIRED
               /\ (job.status = STATUS_CREATED /\ clock = job.deadline_ms + 1) =>
                      accepts = {E_JOB_ALREADY_EXPIRED} /\ refunds = 0
               /\ (job.status = STATUS_ACCEPTED /\ clock = job.deadline_ms + 1) =>
                      submits = {E_JOB_ALREADY_EXPIRED} /\ refunds = 0)

C18_Witness ==
    \E j \in DOMAIN jobs :
        /\ Called("submit_result", j, 0)
        /\ jobs[j].status = STATUS_SUBMITTED
        /\ clock = jobs[j].deadline_ms
        /\ jobs[j].updated_at_ms = jobs[j].deadline_ms
        /\ \E i \in DOMAIN events :
              /\ events[i].type = "JobAccepted"
              /\ events[i].accepted_at_ms = jobs[j].deadline_ms

\* ------------------------------------------------------------------ C19
\* C19: submit_result with an empty result reference is rejected and leaves
\* the job Accepted with no result; so no job holds an empty result reference,
\* and none is Submitted or Settled with one.
C19_NonEmptyResultReference ==
    \A j \in DOMAIN jobs :
        /\ is_some(jobs[j].result_uri) => borrow(jobs[j].result_uri) # ""
        /\ jobs[j].status \in {STATUS_SUBMITTED, STATUS_SETTLED} =>
              jobs[j].result_uri # some("")

\* ------------------------------------------------------------------ C20
\* The deadline and the payment a create_job call passed.
CreateDeadline(call) == call.args[2]
CreatePayment(call) == call.args[3]

\* C20 as stated: create_job aborts with E_INVALID_DEADLINE whenever the
\* deadline is <= the time of the call, and with E_INVALID_BUDGET whenever the
\* payment is <= 0; an aborted create_job shares no job, locks no funds and
\* emits no event.
C20_CreateRejections ==
    [][last'.op = "create_job" =>
          /\ CreateDeadline(last') <= clock => last'.code = E_INVALID_DEADLINE
          /\ CreatePayment(last') <= 0 => last'.code = E_INVALID_BUDGET
          /\ last'.code # 0 => UNCHANGED <<jobs, events, transfers>>]_vars

\* C20 as amended: create_job aborts with E_INVALID_DEADLINE whenever the
\* deadline is <= the time of the call, whatever the payment is, and with
\* E_INVALID_BUDGET whenever the deadline is later than the time of the call
\* and the payment is <= 0; an aborted create_job shares no job, locks no
\* funds and emits no event.
C20_CreateRejectionsDeadlineFirst ==
    [][last'.op = "create_job" =>
          /\ CreateDeadline(last') <= clock => last'.code = E_INVALID_DEADLINE
          /\ (CreateDeadline(last') > clock /\ CreatePayment(last') <= 0) =>
                last'.code = E_INVALID_BUDGET
          /\ last'.code # 0 =>
                /\ UNCHANGED <<jobs, events, transfers>>
                /\ Len(jobs') = Len(jobs)]_vars

C20_Witness ==
    /\ last.op = "create_job"
    /\ last.code = E_INVALID_BUDGET
    /\ CreatePayment(last) = 0
    /\ CreateDeadline(last) > clock
    /\ jobs = <<>>
    /\ events = <<>>
    /\ transfers = <<>>

\* ------------------------------------------------------------------ C21
\* The description a create_job call passed.
CreateDescription(call) == call.args[1]

\* C21: create_job with an empty description is rejected and shares no job;
\* so every job has a non-empty description.
C21_NonEmptyDescription ==
    /\ [][(last'.op = "create_job" /\ CreateDescription(last') = "") =>
             /\ last'.code # 0
             /\ jobs' = jobs]_vars
    /\ [](\A j \in DOMAIN jobs : jobs[j].description # "")

\* ------------------------------------------------------------------ C22
\* C22: a create_job that succeeds shares exactly one new job: its status is
\* Created, its requester is the sender, its worker, result_uri and
\* result_hash are unset, its budget is the value of the payment and is > 0,
\* its escrow holds the budget, its deadline_ms is later than created_at_ms,
\* created_at_ms and updated_at_ms are the time of the call, and its history
\* is exactly one JobCreated event; nothing is transferred.
C22_CreateEffects ==
    [][(last'.op = "create_job" /\ last'.code = 0) =>
          /\ Len(jobs') = Len(jobs) + 1
          /\ SubSeq(jobs', 1, Len(jobs)) = jobs
          /\ LET job == jobs'[Len(jobs')] IN
             /\ job.id = Len(jobs')
             /\ job.status = STATUS_CREATED
             /\ job.requester = last'.sender
             /\ is_none(job.worker)
             /\ is_none(job.result_uri)
             /\ is_none(job.result_hash)
             /\ job.description = CreateDescription(last')
             /\ job.budget = CreatePayment(last')
             /\ job.budget > 0
             /\ job.escrow = job.budget
             /\ job.deadline_ms = CreateDeadline(last')
             /\ job.deadline_ms > job.created_at_ms
             /\ job.created_at_ms = clock
             /\ job.updated_at_ms = clock
             /\ \A i \in DOMAIN events : events[i].job_id # job.id
             /\ events' = Append(events,
                    [type |-> "JobCreated", job_id |-> job.id,
                     requester |-> last'.sender, budget |-> job.budget,
                     deadline_ms |-> job.deadline_ms, created_at_ms |-> clock])
          /\ transfers' = transfers]_vars

C22_Witness ==
    /\ last.op = "create_job"
    /\ last.code = 0
    /\ clock > 0
    /\ \E j \in DOMAIN jobs :
          /\ j = last.job_id
          /\ jobs[j].created_at_ms = clock
          /\ jobs[j].budget = MaxBudget
          /\ jobs[j].escrow = MaxBudget
          /\ KindsOf(j) = <<"JobCreated">>

\* ------------------------------------------------------------------ C23
\* The fields of a job that are fixed when it is created.
CreationFields(job) ==
    <<job.id, job.requester, job.description, job.budget, job.deadline_ms,
      job.created_at_ms>>

\* C23: no step changes the id, requester, description, budget, deadline_ms
\* or created_at_ms of an existing job: every accept_job, submit_result,
\* settle_job and refund_job, committed or aborted, leaves the six as they
\* were; so they are always the values the job's JobCreated event recorded.
C23_CreationFieldsFixed ==
    /\ [][\A j \in DOMAIN jobs :
            /\ j \in DOMAIN jobs'
            /\ CreationFields(jobs'[j]) = CreationFields(jobs[j])]_vars
    /\ [](\A j \in DOMAIN jobs :
            LET created == HistoryOf(j)[1] IN
            /\ created.type = "JobCreated"
            /\ jobs[j].id = j
            /\ jobs[j].requester = created.requester
            /\ jobs[j].budget = created.budget
            /\ jobs[j].deadline_ms = created.deadline_ms
            /\ jobs[j].created_at_ms = created.created_at_ms)

C23_Witness ==
    \E j \in DOMAIN jobs :
        /\ Called("settle_job", j, 0)
        /\ KindsOf(j) = <<"JobCreated", "JobAccepted", "ResultSubmitted", "JobSettled">>
        /\ jobs[j].updated_at_ms > jobs[j].created_at_ms
        /\ jobs[j].budget = HistoryOf(j)[1].budget
        /\ jobs[j].created_at_ms = HistoryOf(j)[1].created_at_ms
        /\ jobs[j].description = "summarize"

\* ------------------------------------------------------------------ C24
\* C24: a worker that is set stays as it is in every step, and so do a
\* result_uri and a result_hash that are set; a submit_result that succeeds
\* stores exactly the result_uri and the result_hash it was passed.
C24_WorkerAndResultFixed ==
    /\ [][\A j \in DOMAIN jobs :
            /\ j \in DOMAIN jobs'
            /\ is_some(jobs[j].worker) => jobs'[j].worker = jobs[j].worker
            /\ is_some(jobs[j].result_uri) =>
                  jobs'[j].result_uri = jobs[j].result_uri
            /\ is_some(jobs[j].result_hash) =>
                  jobs'[j].result_hash = jobs[j].result_hash
            /\ (last'.op = "accept_job" /\ last'.job_id = j /\ last'.code = 0) =>
                  jobs'[j].worker = some(last'.sender)
            /\ (last'.op = "submit_result" /\ last'.job_id = j /\ last'.code = 0) =>
                  /\ jobs'[j].result_hash = some(events'[Len(events')].result_hash)
                  /\ jobs'[j].worker = some(last'.sender)]_vars
    /\ [](\A j \in DOMAIN jobs : \A s \in Addresses, u \in ResultUris,
                                    h \in ResultHashes :
            LET r == submit_result_internal(jobs[j], s, u, h, clock) IN
            r.abort = 0 =>
                /\ r.job.result_uri = some(u)
                /\ r.job.result_hash = some(h)
                /\ r.job.worker = jobs[j].worker)

C24_Witness ==
    \E j \in DOMAIN jobs :
        /\ Called("refund_job", j, 0)
        /\ KindsOf(j) = <<"JobCreated", "JobAccepted", "ResultSubmitted", "JobRefunded">>
        /\ jobs[j].worker = some(HistoryOf(j)[2].worker)
        /\ jobs[j].result_hash = some(<<2>>)
        /\ HistoryOf(j)[3].result_hash = <<2>>
        /\ jobs[j].result_uri = some("ipfs://result")

\* ------------------------------------------------------------------ C25
\* C25: after every accept_job, submit_result, settle_job and refund_job that
\* succeeds, updated_at_ms is the time of the call and is not lower than it
\* was; in no step does updated_at_ms decrease, and it is never lower than
\* created_at_ms nor later than the clock.
C25_UpdatedAtAdvances ==
    /\ [][\A j \in DOMAIN jobs :
            /\ j \in DOMAIN jobs'
            /\ jobs'[j].updated_at_ms >= jobs[j].updated_at_ms
            /\ (last'.op \in JobOps /\ last'.job_id = j /\ last'.code = 0) =>
                  jobs'[j].updated_at_ms = clock
            /\ ~(last'.op \in JobOps /\ last'.job_id = j /\ last'.code = 0) =>
                  jobs'[j].updated_at_ms = jobs[j].updated_at_ms]_vars
    /\ [](\A j \in DOMAIN jobs :
            /\ jobs[j].updated_at_ms >= jobs[j].created_at_ms
            /\ jobs[j].updated_at_ms <= clock)

C25_Witness ==
    \E j \in DOMAIN jobs :
        /\ Called("refund_job", j, 0)
        /\ jobs[j].updated_at_ms = clock
        /\ jobs[j].updated_at_ms > jobs[j].deadline_ms
        /\ KindsOf(j) = <<"JobCreated", "JobAccepted", "JobRefunded">>
        /\ HistoryOf(j)[2].accepted_at_ms > jobs[j].created_at_ms
        /\ HistoryOf(j)[2].accepted_at_ms < clock

\* ------------------------------------------------------------------ C26
\* The event type each entry function emits, and the timestamp an event carries.
KindOfOp(op) ==
    CASE op = "create_job" -> "JobCreated"
      [] op = "accept_job" -> "JobAccepted"
      [] op = "submit_result" -> "ResultSubmitted"
      [] op = "settle_job" -> "JobSettled"
      [] op = "refund_job" -> "JobRefunded"
EventTime(e) ==
    CASE e.type = "JobCreated" -> e.created_at_ms
      [] e.type = "JobAccepted" -> e.accepted_at_ms
      [] e.type = "ResultSubmitted" -> e.submitted_at_ms
      [] e.type = "JobSettled" -> e.settled_at_ms
      [] e.type = "JobRefunded" -> e.refunded_at_ms

\* C26: a call that succeeds appends exactly one event, of the type of its
\* function, for its job and with the time of the call; a call that aborts and
\* a tick of the clock append none; the events already emitted stay as they
\* are and where they are.  The timestamps of a job's events never decrease
\* in emission order, and their types start with JobCreated and follow the
\* edges of the lifecycle.
C26_HistoryAppendOnly ==
    /\ [][/\ Len(events') >= Len(events)
          /\ SubSeq(events', 1, Len(events)) = events
          /\ (last'.op # "none" /\ last'.code = 0) =>
                /\ Len(events') = Len(events) + 1
                /\ events'[Len(events')].type = KindOfOp(last'.op)
                /\ events'[Len(events')].job_id = last'.job_id
                /\ EventTime(events'[Len(events')]) = clock
          /\ (last'.op = "none" \/ last'.code # 0) => events' = events]_vars
    /\ [](\A j \in DOMAIN jobs :
            LET history == HistoryOf(j)
                held == StatusesHeld(j)
            IN /\ Len(history) >= 1
               /\ history[1].type = "JobCreated"
               /\ \A i \in 1..(Len(history) - 1) :
                     /\ EventTime(history[i]) <= EventTime(history[i + 1])
                     /\ \E e \in Edges : e[1] = held[i] /\ e[2] = held[i + 1]
                                            /\ KindOfOp(e[3]) = history[i + 1].type)

C26_Witness ==
    \E j \in DOMAIN jobs :
        /\ Called("submit_result", j, E_INVALID_STATE)
        /\ KindsOf(j) = <<"JobCreated", "JobAccepted", "ResultSubmitted", "JobRefunded">>
        /\ EventTime(HistoryOf(j)[2]) = EventTime(HistoryOf(j)[3])
        /\ EventTime(HistoryOf(j)[1]) < EventTime(HistoryOf(j)[2])
        /\ EventTime(HistoryOf(j)[3]) < EventTime(HistoryOf(j)[4])

\* ------------------------------------------------------------------ C27
\* The sum of the amounts transferred out of job_id's escrow to recipient.
RECURSIVE SumTo(_, _, _)
SumTo(job_id, recipient, n) ==
    IF n = 0 THEN 0
    ELSE SumTo(job_id, recipient, n - 1)
         + (IF transfers[n].job_id = job_id /\ transfers[n].recipient = recipient
            THEN transfers[n].amount ELSE 0)
Received(job_id, recipient) == SumTo(job_id, recipient, Len(transfers))

\* C27: every step of the happy path is enabled: create_job with a deadline
\* after the time of the call and a payment > 0 succeeds for every sender;
\* while time <= deadline_ms, accept_job on a Created job succeeds for every
\* sender other than the requester and submit_result on an Accepted job
\* succeeds for its worker; settle_job on a Submitted job succeeds for the
\* requester at every time.  A job settled along this path is Settled, its
\* worker has received the whole budget and its requester 0, and its history
\* is JobCreated, JobAccepted, ResultSubmitted, JobSettled.
C27_HappyPath ==
    /\ \A s \in Addresses, d \in Descriptions, dl \in Deadlines, p \in CoinValues :
          (dl > clock /\ p > 0) =>
              create_job_internal(Len(jobs) + 1, s, d, dl, p, clock).abort = 0
    /\ \A j \in DOMAIN jobs :
          LET job == jobs[j] IN
          /\ (job.status = STATUS_CREATED /\ clock <= job.deadline_ms) =>
                \A w \in Addresses \ {job.requester} :
                    accept_job_internal(job, w, clock).abort = 0
          /\ (job.status = STATUS_ACCEPTED /\ clock <= job.deadline_ms) =>
                \A u \in ResultUris, h \in ResultHashes :
                    submit_result_internal(job, borrow(job.worker), u, h, clock).abort = 0
          /\ job.status = STATUS_SUBMITTED =>
                settle_job_internal(job, job.requester, clock).abort = 0
          /\ job.status = STATUS_SETTLED =>
                /\ KindsOf(j) = <<"JobCreated", "JobAccepted", "ResultSubmitted",
                                  "JobSettled">>
                /\ borrow(job.worker) # job.requester
                /\ Received(j, borrow(job.worker)) = job.budget
                /\ Received(j, job.requester) = 0
                /\ HistoryOf(j)[4].payout = job.budget
                /\ HistoryOf(j)[1].requester = job.requester
                /\ HistoryOf(j)[2].worker = borrow(job.worker)
                /\ HistoryOf(j)[3].worker = borrow(job.worker)
                /\ HistoryOf(j)[4].requester = job.requester
                /\ EventTime(HistoryOf(j)[2]) <= EventTime(HistoryOf(j)[3])
                /\ EventTime(HistoryOf(j)[3]) <= job.deadline_ms

C27_Witness ==
    \E j \in DOMAIN jobs :
        /\ Called("settle_job", j, 0)
        /\ jobs[j].status = STATUS_SETTLED
        /\ jobs[j].budget = MaxBudget
        /\ Received(j, borrow(jobs[j].worker)) = MaxBudget
        /\ EventTime(HistoryOf(j)[2]) < EventTime(HistoryOf(j)[3])
        /\ EventTime(HistoryOf(j)[3]) = jobs[j].deadline_ms
        /\ clock > jobs[j].deadline_ms

\* ------------------------------------------------------------------ C28
\* The time is past the deadline of the job.
PastDeadline(job) == clock > job.deadline_ms

\* C28: an accept_job or submit_result that aborts with E_JOB_ALREADY_EXPIRED
\* was called past the deadline of its job; a job that is past its deadline
\* stays past it in every step, the clock never going back and deadline_ms
\* never changing; and past the deadline no accept_job and no submit_result on
\* the job succeeds, a Created job does not become Accepted and an Accepted
\* job does not become Submitted.  So after such an abort no accept_job and no
\* submit_result on the job ever succeeds.
C28_ExpiredIsPermanent ==
    /\ [](\A j \in DOMAIN jobs :
            (last.op \in {"accept_job", "submit_result"} /\ last.job_id = j
                /\ last.code = E_JOB_ALREADY_EXPIRED) => PastDeadline(jobs[j]))
    /\ [][/\ clock' >= clock
          /\ \A j \in DOMAIN jobs :
                PastDeadline(jobs[j]) =>
                   /\ j \in DOMAIN jobs'
                   /\ clock' > jobs'[j].deadline_ms
                   /\ (last'.op \in {"accept_job", "submit_result"}
                          /\ last'.job_id = j) => last'.code # 0
                   /\ jobs[j].status = STATUS_CREATED =>
                         jobs'[j].status # STATUS_ACCEPTED
                   /\ jobs[j].status = STATUS_ACCEPTED =>
                         jobs'[j].status # STATUS_SUBMITTED
                   /\ jobs'[j].status \in {STATUS_ACCEPTED, STATUS_SUBMITTED} =>
                         jobs'[j].status = jobs[j].status]_vars

C28_Witness ==
    \E j \in DOMAIN jobs :
        /\ Called("accept_job", j, E_JOB_ALREADY_EXPIRED)
        /\ last.sender # jobs[j].requester
        /\ jobs[j].status = STATUS_CREATED
        /\ clock > jobs[j].deadline_ms + 1

\* ------------------------------------------------------------------ C30
\* The positions in the event log of the JobAccepted events of job_id.
AcceptancesOf(job_id) ==
    {i \in DOMAIN events : events[i].job_id = job_id /\ events[i].type = "JobAccepted"}

\* C30: on a Created job, up to its deadline, accept_job succeeds for every
\* sender other than the requester, so the first of several acceptors
\* succeeds whoever it is; every accept_job on a job that has been accepted
\* aborts with E_INVALID_STATE and leaves the worker as it is; a job has at
\* most one JobAccepted event, and its worker is the worker of that event;
\* and submit_result on the job succeeds for no sender other than that worker.
C30_SingleWorkerAcceptance ==
    /\ [][\A j \in DOMAIN jobs :
            /\ (last'.op = "accept_job" /\ last'.job_id = j
                   /\ jobs[j].status = STATUS_CREATED
                   /\ last'.sender # jobs[j].requester
                   /\ clock <= jobs[j].deadline_ms) =>
                  /\ last'.code = 0
                  /\ jobs'[j].worker = some(last'.sender)
            /\ (last'.op = "accept_job" /\ last'.job_id = j
                   /\ AcceptancesOf(j) # {}) =>
                  /\ last'.code = E_INVALID_STATE
                  /\ jobs'[j].worker = jobs[j].worker
            /\ (last'.op = "submit_result" /\ last'.job_id = j
                   /\ last'.code = 0) =>
                  jobs[j].worker = some(last'.sender)]_vars
    /\ [](\A j \in DOMAIN jobs :
            /\ Cardinality(AcceptancesOf(j)) <= 1
            /\ \A i \in AcceptancesOf(j) :
                  /\ jobs[j].worker = some(events[i].worker)
                  /\ events[i].worker # jobs[j].requester
                  /\ \A s \in Addresses :
                        accept_job_internal(jobs[j], s, clock).abort = E_INVALID_STATE
                  /\ \A s \in Addresses \ {events[i].worker} :
                     \A u \in ResultUris, h \in ResultHashes :
                        submit_result_internal(jobs[j], s, u, h, clock).abort # 0
            /\ AcceptancesOf(j) = {} <=> is_none(jobs[j].worker))

C30_Witness ==
    \E j \in DOMAIN jobs :
        /\ Called("accept_job", j, E_INVALID_STATE)
        /\ jobs[j].status = STATUS_ACCEPTED
        /\ clock <= jobs[j].deadline_ms
        /\ last.sender # jobs[j].requester
        /\ jobs[j].worker # some(last.sender)
        /\ Cardinality(AcceptancesOf(j)) = 1

\* ------------------------------------------------------------------ C29
\* Two jobs side by side.  Both have been created at time 0 with a deadline
\* and a payment create_job accepts, the first by 0xA and the second by either
\* address (the two addresses are interchangeable, so this covers the first
\* being created by 0xB as well); from there every call on either job and
\* every tick of the clock may come in any order.
PairAddresses == {"0xA", "0xB"}
PairUris == {"ipfs://result"}
PairHashes == {<<1>>}
PairDeadlines == {1}
PairValues == {MaxBudget}

InitPair ==
    /\ clock = 0
    /\ transfers = <<>>
    /\ \E s1 \in {"0xA"}, s2 \in PairAddresses, dl1, dl2 \in PairDeadlines,
          p1, p2 \in PairValues :
          LET r1 == create_job_internal(1, s1, "summarize", dl1, p1, 0)
              r2 == create_job_internal(2, s2, "summarize", dl2, p2, 0)
          IN /\ r1.abort = 0
             /\ r2.abort = 0
             /\ jobs = <<r1.job, r2.job>>
             /\ events = r1.events \o r2.events
             /\ last = [op |-> "create_job", job_id |-> 2, sender |-> s2,
                        args |-> <<"summarize", dl2, p2>>, code |-> 0]

NextPair ==
    \/ \E j \in JobIds, s \in PairAddresses : accept_job(j, s)
    \/ \E j \in JobIds, s \in PairAddresses, u \in PairUris, h \in PairHashes :
          submit_result(j, s, u, h)
    \/ \E j \in JobIds, s \in PairAddresses : settle_job(j, s)
    \/ \E j \in JobIds, s \in PairAddresses : refund_job(j, s)
    \/ Tick

SpecPair == InitPair /\ [][NextPair]_vars

\* The job obtained by running on a fresh job, alone, the first n calls that
\* succeeded on job_id, each with the sender, the arguments and the time its
\* event recorded (the description and the result_uri, which no event
\* records, are read from the job).
RECURSIVE ReplayAlone(_, _)
ReplayAlone(job_id, n) ==
    LET e == HistoryOf(job_id)[n] IN
    IF n = 1
    THEN create_job_internal(job_id, e.requester, jobs[job_id].description,
                             e.deadline_ms, e.budget, e.created_at_ms)
    ELSE LET before == ReplayAlone(job_id, n - 1) IN
         IF before.abort # 0 THEN before
         ELSE CASE e.type = "JobAccepted" ->
                      accept_job_internal(before.job, e.worker, e.accepted_at_ms)
                [] e.type = "ResultSubmitted" ->
                      submit_result_internal(before.job, e.worker,
                                             borrow(jobs[job_id].result_uri),
                                             e.result_hash, e.submitted_at_ms)
                [] e.type = "JobSettled" ->
                      settle_job_internal(before.job, e.requester, e.settled_at_ms)
                [] e.type = "JobRefunded" ->
                      refund_job_internal(before.job, e.requester, e.refunded_at_ms)
                [] OTHER -> Abort(E_INVALID_STATE)

\* C29: a call on one job, committed or aborted, leaves every other job, its
\* escrow, its events and the transfers out of its escrow as they were; and
\* however the calls on the two jobs are interleaved, each job is the job
\* obtained by running its own calls alone in the same order.
C29_JobsIndependent ==
    /\ [][\A j \in DOMAIN jobs :
            (last'.op \in JobOps /\ last'.job_id # j) =>
                /\ j \in DOMAIN jobs'
                /\ jobs'[j] = jobs[j]
                /\ SelectSeq(events', LAMBDA e : e.job_id = j) = HistoryOf(j)
                /\ SelectSeq(transfers', LAMBDA t : t.job_id = j)
                      = SelectSeq(transfers, LAMBDA t : t.job_id = j)]_vars
    /\ [](\A j \in DOMAIN jobs :
            LET alone == ReplayAlone(j, Len(HistoryOf(j))) IN
            /\ alone.abort = 0
            /\ alone.job = jobs[j])

C29_Witness ==
    /\ Len(jobs) = 2
    /\ jobs[1].status = STATUS_SETTLED
    /\ jobs[2].status = STATUS_REFUNDED
    /\ jobs[2].worker = some(jobs[1].requester)
    /\ Called("refund_job", 2, 0)
    /\ \E a, b, c \in DOMAIN events :
          /\ 2 < a /\ a < b /\ b < c
          /\ events[a].job_id = 1
          /\ events[b].job_id = 2
          /\ events[c].job_id = 1

\* ------------------------------------------------------------------ C31
\* The outcome of op on job for sender at time now_ms: the abort code, or the
\* job, the transfers and the event it returns.  submit_result is given every
\* result_uri and result_hash in turn.
OutcomesOf(op, job, sender, now_ms) ==
    CASE op = "accept_job" -> {accept_job_internal(job, sender, now_ms)}
      [] op = "submit_result" ->
            {submit_result_internal(job, sender, u, h, now_ms) :
                u \in ResultUris, h \in ResultHashes}
      [] op = "settle_job" -> {settle_job_internal(job, sender, now_ms)}
      [] op = "refund_job" -> {refund_job_internal(job, sender, now_ms)}

C32_PayAllIdempotentOnZero ==
    \A recipient \in Addresses :
    \A balance \in CoinValues \cup {jobs[j].escrow : j \in DOMAIN jobs} :
        LET once == release_all_to(balance, recipient)
            twice == release_all_to(once.escrow, recipient)
        IN /\ balance = 0 =>
                 once.payout = 0 /\ once.transfers = <<>> /\ once.escrow = 0
           /\ balance > 0 =>
                 /\ once.payout = balance
                 /\ once.transfers = <<[recipient |-> recipient, amount |-> balance]>>
                 /\ once.escrow = 0
           /\ twice.payout = 0 /\ twice.transfers = <<>> /\ twice.escrow = 0
           /\ Len(once.transfers \o twice.transfers) <= 1
           /\ refund_all_to(balance, recipient) = once
           /\ refund_all_to(once.escrow, recipient) = twice

C32_Witness ==
    \E j \in DOMAIN jobs :
        /\ Called("settle_job", j, 0)
        /\ jobs[j].budget = MaxBudget
        /\ jobs[j].escrow = 0
        /\ Cardinality(PayoutsOf(j)) = 1
        /\ release_all_to(jobs[j].escrow, borrow(jobs[j].worker)).transfers = <<>>
        /\ release_all_to(jobs[j].escrow, borrow(jobs[j].worker)).payout = 0

\* ------------------------------------------------------------------ C35
\* The times from the clock on.
LaterTimes == {t \in Times : t >= clock}

\* C35: on a Submitted job past its deadline both settle_job and refund_job
\* by the requester are enabled.  Whichever runs first succeeds and pays the
\* whole budget, settle_job to the worker and refund_job to the requester, and
\* the other, run at any later time, aborts with E_INVALID_STATE.  So a job
\* that has been Submitted and is Settled or Refunded has had exactly one
\* payout, of its budget, and a settle_job or refund_job on it aborts with
\* E_INVALID_STATE and pays nothing.
C35_SettleRefundRace ==
    /\ [](\A j \in DOMAIN jobs :
            LET job == jobs[j]
                settled == settle_job_internal(job, job.requester, clock)
                refunded == refund_job_internal(job, job.requester, clock)
            IN /\ (job.status = STATUS_SUBMITTED /\ clock > job.deadline_ms) =>
                     /\ settled.abort = 0
                     /\ settled.transfers = <<[recipient |-> borrow(job.worker),
                                               amount |-> job.budget]>>
                     /\ settled.job.escrow = 0
                     /\ \A t \in LaterTimes :
                           refund_job_internal(settled.job, job.requester, t).abort
                              = E_INVALID_STATE
                     /\ refunded.abort = 0
                     /\ refunded.transfers = <<[recipient |-> job.requester,
                                                amount |-> job.budget]>>
                     /\ refunded.job.escrow = 0
                     /\ \A t \in LaterTimes :
                           settle_job_internal(refunded.job, job.requester, t).abort
                              = E_INVALID_STATE
               /\ (Terminal(job) /\ HasEvent(j, "ResultSubmitted")) =>
                     /\ Cardinality(PayoutsOf(j)) = 1
                     /\ \A i \in PayoutsOf(j) :
                           /\ transfers[i].amount = job.budget
                           /\ transfers[i].recipient =
                                 IF job.status = STATUS_SETTLED
                                 THEN borrow(job.worker) ELSE job.requester)
    /\ [][\A j \in DOMAIN jobs :
            (Terminal(jobs[j]) /\ last'.op \in {"settle_job", "refund_job"}
                /\ last'.job_id = j /\ last'.sender = jobs[j].requester) =>
                /\ last'.code = E_INVALID_STATE
                /\ transfers' = transfers
                /\ jobs' = jobs]_vars

C35_Witness ==
    \E j \in DOMAIN jobs :
        /\ Called("settle_job", j, E_INVALID_STATE)
        /\ last.sender = jobs[j].requester
        /\ jobs[j].status = STATUS_REFUNDED
        /\ HasEvent(j, "ResultSubmitted")
        /\ \E i \in PayoutsOf(j) :
              transfers[i].recipient = jobs[j].requester
                 /\ transfers[i].amount = jobs[j].budget

\* ------------------------------------------------------------------ C38
\* C38: the worker of a job, once set, is not its requester; so the coin a
\* settle_job transfers goes to an address other than the requester, and a
\* coin out of the escrow of a job reaches its requester only by a refund_job
\* made after the deadline.
C38_SettleNeverPaysRequester ==
    /\ [](\A j \in DOMAIN jobs :
            /\ is_some(jobs[j].worker) => borrow(jobs[j].worker) # jobs[j].requester
            /\ \A i \in DOMAIN events :
                  (events[i].job_id = j /\ events[i].type = "JobSettled") =>
                      /\ events[i].worker # jobs[j].requester
                      /\ events[i].worker = borrow(jobs[j].worker)
            /\ \A i \in PayoutsOf(j) :
                  transfers[i].recipient = jobs[j].requester =>
                      /\ jobs[j].status = STATUS_REFUNDED
                      /\ ~HasEvent(j, "JobSettled")
                      /\ \E k \in DOMAIN events :
                            /\ events[k].job_id = j
                            /\ events[k].type = "JobRefunded"
                            /\ events[k].refund = transfers[i].amount
                            /\ events[k].refunded_at_ms > jobs[j].deadline_ms)
    /\ [][\A j \in DOMAIN jobs :
            (last'.op = "settle_job" /\ last'.job_id = j /\ last'.code = 0) =>
                /\ Len(transfers') = Len(transfers) + 1
                /\ transfers'[Len(transfers')].recipient # jobs[j].requester
                /\ transfers'[Len(transfers')].recipient = borrow(jobs[j].worker)]_vars

C38_Witness ==
    \E j \in DOMAIN jobs :
        /\ Called("settle_job", j, 0)
        /\ last.sender = jobs[j].requester
        /\ clock > jobs[j].deadline_ms
        /\ Received(j, jobs[j].requester) = 0
        /\ Received(j, borrow(jobs[j].worker)) = jobs[j].budget
        /\ borrow(jobs[j].worker) # jobs[j].requester

\* ------------------------------------------------------------------ C39
\* C39: a Refunded job has updated_at_ms > deadline_ms; an Accepted or
\* Submitted job has updated_at_ms <= deadline_ms; and a Settled job has a
\* ResultSubmitted event stamped <= deadline_ms whose worker is the address
\* that received the payout.
C39_TimestampsMatchGuards ==
    \A j \in DOMAIN jobs :
        LET job == jobs[j] IN
        /\ job.status = STATUS_REFUNDED => job.updated_at_ms > job.deadline_ms
        /\ job.status \in {STATUS_ACCEPTED, STATUS_SUBMITTED} =>
              job.updated_at_ms <= job.deadline_ms
        /\ job.status = STATUS_CREATED => job.updated_at_ms < job.deadline_ms
        /\ job.status = STATUS_SETTLED =>
              /\ \E i \in DOMAIN events :
                    /\ events[i].job_id = j
                    /\ events[i].type = "ResultSubmitted"
                    /\ events[i].submitted_at_ms <= job.deadline_ms
                    /\ \A k \in PayoutsOf(j) :
                          transfers[k].recipient = events[i].worker
              /\ PayoutsOf(j) # {}

C39_Witness ==
    \E j \in DOMAIN jobs :
        /\ Called("refund_job", j, 0)
        /\ jobs[j].status = STATUS_REFUNDED
        /\ jobs[j].updated_at_ms = jobs[j].deadline_ms + 1
        /\ \E i \in DOMAIN events :
              /\ events[i].job_id = j
              /\ events[i].type = "ResultSubmitted"
              /\ events[i].submitted_at_ms = jobs[j].deadline_ms

\* ------------------------------------------------------------------ C37
\* The sum of a sequence of numbers.
RECURSIVE SumSeq(_)
SumSeq(amounts) ==
    IF amounts = <<>> THEN 0
    ELSE amounts[1] + SumSeq(Tail(amounts))

\* The payments locked by create_job so far, the balances of all escrows, and
\* the coins transferred out of escrows so far.
Deposited ==
    SumSeq([i \in DOMAIN events |->
               IF events[i].type = "JobCreated" THEN events[i].budget ELSE 0])
Escrowed == SumSeq([j \in DOMAIN jobs |-> jobs[j].escrow])
PaidOut == SumSeq([i \in DOMAIN transfers |-> transfers[i].amount])

\* C37: over all jobs, the payments locked by create_job equal the balances
\* of the escrows plus the coins transferred out of them; and no step other
\* than a create_job that succeeds changes the sum of escrows and transfers.
C37_FundsConserved ==
    /\ [](/\ Deposited = Escrowed + PaidOut
          /\ Deposited = SumSeq([j \in DOMAIN jobs |-> jobs[j].budget])
          /\ \A i \in DOMAIN transfers : transfers[i].amount > 0)
    /\ [][\/ (jobs' = jobs /\ transfers' = transfers /\ events' = events)
          \/ /\ ~(last'.op = "create_job" /\ last'.code = 0) =>
                   /\ Deposited' = Deposited
                   /\ Escrowed' + PaidOut' = Escrowed + PaidOut
             /\ Escrowed' <= Escrowed \/ (last'.op = "create_job" /\ last'.code = 0)
             /\ PaidOut' >= PaidOut]_vars

C37_Witness ==
    /\ Len(jobs) = 2
    /\ Called("settle_job", 1, 0)
    /\ jobs[2].status = STATUS_SUBMITTED
    /\ Escrowed = jobs[2].budget
    /\ PaidOut = jobs[1].budget
    /\ Deposited = jobs[1].budget + jobs[2].budget
    /\ \E i \in DOMAIN events : events[i].job_id = 2 /\ events[i].type = "ResultSubmitted"
                                   /\ i < Len(events) - 1

\* ------------------------------------------------------------------ C36
\* The requester of a job calls refund_job on it.
RequesterRefund == \E j \in JobIds : refund_job(j, jobs[j].requester)

\* The lifecycle of one job when the shared Clock keeps advancing and the
\* requester keeps calling refund_job.  The senders are two addresses, enough
\* for a requester and a worker; every deadline and payment is tried, and one
\* description, result_uri and result_hash, which no guard reads.
NextLive ==
    \/ /\ jobs = <<>>
       /\ \E s \in PairAddresses, dl \in Deadlines, p \in CoinValues :
             create_job(s, "summarize", dl, p)
    \/ \E j \in JobIds, s \in PairAddresses : accept_job(j, s)
    \/ \E j \in JobIds, s \in PairAddresses, u \in PairUris, h \in PairHashes :
          submit_result(j, s, u, h)
    \/ \E j \in JobIds, s \in PairAddresses : settle_job(j, s)
    \/ \E j \in JobIds, s \in PairAddresses : refund_job(j, s)
    \/ Tick

SpecLive == Init /\ [][NextLive]_vars /\ WF_vars(Tick) /\ WF_vars(RequesterRefund)

\* Every job is Settled or Refunded and its escrow is empty.
AllReleased ==
    \A j \in DOMAIN jobs : Terminal(jobs[j]) /\ jobs[j].escrow = 0

\* C36: on every job that is Created, Accepted or Submitted past its deadline
\* refund_job by the requester succeeds; so when the clock keeps advancing
\* and the requester keeps calling refund_job, a job that exists is
\* eventually Settled or Refunded with an empty escrow, and stays so.
C36_FundsNeverLocked ==
    /\ [](\A j \in DOMAIN jobs :
            (NonTerminal(jobs[j]) /\ clock > jobs[j].deadline_ms) =>
                /\ refund_job_internal(jobs[j], jobs[j].requester, clock).abort = 0
                /\ ENABLED RequesterRefund)
    /\ (jobs # <<>>) ~> [](jobs # <<>> /\ AllReleased)

C36_Witness ==
    \E j \in DOMAIN jobs :
        /\ Called("refund_job", j, 0)
        /\ KindsOf(j) = <<"JobCreated", "JobRefunded">>
        /\ is_none(jobs[j].worker)
        /\ jobs[j].escrow = 0
        /\ jobs[j].budget = MaxBudget
        /\ clock = jobs[j].deadline_ms + 1

\* ------------------------------------------------------------------ C34
\* The read side: SuiInferrailClient.listJobs rebuilds every job from the
\* events of the package.  The u64 fields of an event arrive as decimal
\* strings and are read with Number(), which is exact for them below 2^53, as
\* every timestamp and budget of the bounds is; object ids arrive in lower
\* case, and normalizeAddress leaves them as they are.

\* JobStatus of the front end for a status of the contract.
StatusName(status) ==
    CASE status = STATUS_CREATED -> "Created"
      [] status = STATUS_ACCEPTED -> "Accepted"
      [] status = STATUS_SUBMITTED -> "Submitted"
      [] status = STATUS_SETTLED -> "Settled"
      [] status = STATUS_REFUNDED -> "Refunded"

\* null of the front end.
null == "null"

\* normalizeAddress: String.toLowerCase on an address.
normalizeAddress(value) ==
    CASE value = "0xA" -> "0xa"
      [] value = "0xB" -> "0xb"
      [] value = "0xC" -> "0xc"
      [] OTHER -> value

\* bytesToHex: two hexadecimal digits for every byte (the bytes of
\* ResultHashes are below 16).
RECURSIVE bytesToHex(_)
bytesToHex(value) ==
    IF value = <<>> THEN ""
    ELSE (CASE Head(value) = 1 -> "01" [] Head(value) = 2 -> "02" [] OTHER -> "00")
         \o bytesToHex(Tail(value))

Max(a, b) == IF a >= b THEN a ELSE b

\* queryAllEvents: the events of one type, oldest first.
queryAllEvents(eventType) == SelectSeq(events, LAMBDA e : e.type = eventType)

\* Mutant of ListedEvents: the ResultSubmitted events are applied before the
\* JobAccepted events.
ListedEvents_submitted_first(job_id) ==
    LET of_job(evs) == SelectSeq(evs, LAMBDA e : e.job_id = job_id)
    IN of_job(queryAllEvents("JobCreated"))
       \o of_job(queryAllEvents("ResultSubmitted"))
       \o of_job(queryAllEvents("JobAccepted"))
       \o of_job(queryAllEvents("JobSettled"))
       \o of_job(queryAllEvents("JobRefunded"))

\* The events listJobs applies to the job job_id, in the order it applies
\* them: grouped by type, created, accepted, submitted, settled, refunded, and
\* oldest first within a type (the JobCreated events are sorted by
\* created_at_ms, a job has one).
ListedEvents(job_id) ==
    LET of_job(evs) == SelectSeq(evs, LAMBDA e : e.job_id = job_id)
    IN of_job(queryAllEvents("JobCreated"))
       \o of_job(queryAllEvents("JobAccepted"))
       \o of_job(queryAllEvents("ResultSubmitted"))
       \o of_job(queryAllEvents("JobSettled"))
       \o of_job(queryAllEvents("JobRefunded"))

\* The body of each forEach of listJobs: the job after one event is applied.
\* A JobCreated event sets the entry of the job; the others update it.
ApplyListed(job, e) ==
    CASE e.type = "JobCreated" ->
            [id |-> e.job_id,
             description |-> "On-chain job (description not indexed in event payload)",
             budget |-> e.budget,
             deadlineMs |-> e.deadline_ms,
             requester |-> normalizeAddress(e.requester),
             worker |-> null,
             status |-> "Created",
             resultUri |-> null,
             resultHash |-> null,
             createdAtMs |-> e.created_at_ms,
             updatedAtMs |-> e.created_at_ms,
             timeline |-> <<[type |-> "JobCreated",
                             actor |-> normalizeAddress(e.requester),
                             atMs |-> e.created_at_ms]>>]
      [] e.type = "JobAccepted" ->
            [job EXCEPT !.worker = normalizeAddress(e.worker),
                        !.status = "Accepted",
                        !.updatedAtMs = Max(job.updatedAtMs, e.accepted_at_ms),
                        !.timeline = Append(@, [type |-> "JobAccepted",
                                                actor |-> normalizeAddress(e.worker),
                                                atMs |-> e.accepted_at_ms])]
      [] e.type = "ResultSubmitted" ->
            [job EXCEPT !.status = "Submitted",
                        !.worker = normalizeAddress(e.worker),
                        !.resultHash = IF bytesToHex(e.result_hash) = "" THEN null
                                       ELSE bytesToHex(e.result_hash),
                        !.updatedAtMs = Max(job.updatedAtMs, e.submitted_at_ms),
                        !.timeline = Append(@, [type |-> "ResultSubmitted",
                                                actor |-> normalizeAddress(e.worker),
                                                atMs |-> e.submitted_at_ms])]
      [] e.type = "JobSettled" ->
            [job EXCEPT !.status = "Settled",
                        !.worker = normalizeAddress(e.worker),
                        !.updatedAtMs = Max(job.updatedAtMs, e.settled_at_ms),
                        !.timeline = Append(@, [type |-> "JobSettled",
                                                actor |-> normalizeAddress(e.requester),
                                                atMs |-> e.settled_at_ms])]
      [] e.type = "JobRefunded" ->
            [job EXCEPT !.status = "Refunded",
                        !.updatedAtMs = Max(job.updatedAtMs, e.refunded_at_ms),
                        !.timeline = Append(@, [type |-> "JobRefunded",
                                                actor |-> normalizeAddress(e.requester),
                                                atMs |-> e.refunded_at_ms])]

RECURSIVE ApplyAllListed(_, _)
ApplyAllListed(job, evs) ==
    IF evs = <<>> THEN job
    ELSE ApplyAllListed(ApplyListed(job, Head(evs)), Tail(evs))

\* The job listJobs returns for job_id (one that has a JobCreated event).
ListedJob(job_id) == ApplyAllListed(null, ListedEvents(job_id))

\* The worker of a job as the front end shows it.
WorkerShown(job) ==
    IF is_none(job.worker) THEN null ELSE normalizeAddress(borrow(job.worker))

trim(s) ==
    CASE s = " " -> ""
      [] s = " summarize " -> "summarize"
      [] s = " ipfs://result " -> "ipfs://result"
      [] OTHER -> s

\* The inputs of the comparison: those of the model and, for the strings,
\* blank and padded ones.
MockDescriptions == Descriptions \cup {" ", " summarize "}
MockUris == ResultUris \cup {" ", " ipfs://result "}

Thrown(message) == [error |-> message]
Saved(job) == [error |-> "", job |-> job]

\* pushEvent, without the id and the note of the entry.
pushEvent(job, type, actor, atMs) ==
    [job EXCEPT !.timeline = Append(@, [type |-> type, actor |-> actor, atMs |-> atMs])]

isExpired(job, atMs) == atMs > job.deadlineMs

mock_createJob(id, requester, description, budget, deadlineMs, now) ==
    IF trim(description) = "" THEN Thrown("Description cannot be empty")
    ELSE IF budget <= 0 THEN Thrown("Budget must be greater than 0")
    ELSE IF deadlineMs <= now THEN Thrown("Deadline must be in the future")
    ELSE Saved([id |-> id,
                description |-> trim(description),
                budget |-> budget,
                deadlineMs |-> deadlineMs,
                requester |-> requester,
                worker |-> null,
                status |-> "Created",
                resultUri |-> null,
                resultHash |-> null,
                createdAtMs |-> now,
                updatedAtMs |-> now,
                timeline |-> <<[type |-> "JobCreated", actor |-> requester,
                                atMs |-> now]>>])

mock_acceptJob(job, worker, now) ==
    IF job.status # "Created" THEN Thrown("Job is not open for acceptance")
    ELSE IF job.requester = worker THEN Thrown("Requester cannot accept own job")
    ELSE IF isExpired(job, now) THEN Thrown("Job already expired")
    ELSE Saved(pushEvent([job EXCEPT !.worker = worker,
                                     !.status = "Accepted",
                                     !.updatedAtMs = now],
                         "JobAccepted", worker, now))

mock_submitResult(job, worker, resultUri, resultHash, now) ==
    IF job.status # "Accepted"
    THEN Thrown("Only accepted jobs can receive result submission")
    ELSE IF job.worker # worker THEN Thrown("Only assigned worker can submit result")
    ELSE IF isExpired(job, now) THEN Thrown("Job already expired")
    ELSE IF trim(resultUri) = "" THEN Thrown("Result URI cannot be empty")
    ELSE Saved(pushEvent([job EXCEPT !.resultUri = trim(resultUri),
                                     !.resultHash = resultHash,
                                     !.status = "Submitted",
                                     !.updatedAtMs = now],
                         "ResultSubmitted", worker, now))

mock_settleJob(job, requester, now) ==
    IF job.status # "Submitted" THEN Thrown("Only submitted jobs can be settled")
    ELSE IF job.requester # requester THEN Thrown("Only requester can settle the job")
    ELSE Saved(pushEvent([job EXCEPT !.status = "Settled", !.updatedAtMs = now],
                         "JobSettled", requester, now))

mock_refundJob(job, requester, now) ==
    IF job.requester # requester THEN Thrown("Only requester can refund the job")
    ELSE IF job.status = "Settled" \/ job.status = "Refunded"
    THEN Thrown("Job is already finalized")
    ELSE IF ~isExpired(job, now) THEN Thrown("Job is not expired yet")
    ELSE Saved(pushEvent([job EXCEPT !.status = "Refunded", !.updatedAtMs = now],
                         "JobRefunded", requester, now))

\* The guard behind an abort code of the contract and behind a message of the
\* mock client, under one name for the two.
GuardOfCode(code) ==
    CASE code = E_INVALID_DEADLINE -> "deadline in the future"
      [] code = E_INVALID_BUDGET -> "budget positive"
      [] code = E_INVALID_STATE -> "status"
      [] code = E_ONLY_REQUESTER_CAN_SETTLE -> "requester settles"
      [] code = E_ONLY_REQUESTER_CAN_REFUND -> "requester refunds"
      [] code = E_ONLY_WORKER_CAN_SUBMIT -> "worker submits"
      [] code = E_JOB_NOT_EXPIRED -> "expired"
      [] code = E_JOB_ALREADY_EXPIRED -> "not expired"
      [] code = E_REQUESTER_CANNOT_ACCEPT -> "requester does not accept"
      [] OTHER -> "none"

GuardOfMessage(message) ==
    CASE message = "Deadline must be in the future" -> "deadline in the future"
      [] message = "Budget must be greater than 0" -> "budget positive"
      [] message = "Job is not open for acceptance" -> "status"
      [] message = "Only accepted jobs can receive result submission" -> "status"
      [] message = "Only submitted jobs can be settled" -> "status"
      [] message = "Job is already finalized" -> "status"
      [] message = "Only requester can settle the job" -> "requester settles"
      [] message = "Only requester can refund the job" -> "requester refunds"
      [] message = "Only assigned worker can submit result" -> "worker submits"
      [] message = "Job is not expired yet" -> "expired"
      [] message = "Job already expired" -> "not expired"
      [] message = "Requester cannot accept own job" -> "requester does not accept"
      [] message = "Description cannot be empty" -> "description not blank"
      [] message = "Result URI cannot be empty" -> "result URI not blank"
      [] OTHER -> "none"

\* The job the mock client stores when it has made the calls that made the
\* contract's job job_id: the fields the two share, and the timeline of the
\* job's events.
MockOf(job_id) ==
    LET job == jobs[job_id] IN
    [id |-> job_id,
     description |-> trim(job.description),
     budget |-> job.budget,
     deadlineMs |-> job.deadline_ms,
     requester |-> job.requester,
     worker |-> IF is_none(job.worker) THEN null ELSE borrow(job.worker),
     status |-> StatusName(job.status),
     resultUri |-> IF is_none(job.result_uri) THEN null ELSE trim(borrow(job.result_uri)),
     resultHash |-> IF is_none(job.result_hash) THEN null ELSE borrow(job.result_hash),
     createdAtMs |-> job.created_at_ms,
     updatedAtMs |-> job.updated_at_ms,
     timeline |-> [i \in DOMAIN HistoryOf(job_id) |->
                      [type |-> HistoryOf(job_id)[i].type,
                       actor |-> IF HistoryOf(job_id)[i].type \in {"JobAccepted", "ResultSubmitted"}
                                 THEN HistoryOf(job_id)[i].worker
                                 ELSE HistoryOf(job_id)[i].requester,
                       atMs |-> EventTime(HistoryOf(job_id)[i])]]]

\* One call agrees: the two succeed or fail together, by the same guard when
\* they fail, and with the same status, worker and timeline kinds when they
\* succeed (kinds: those of the job so far, then those the contract emits).
Agree(onchain, mock, kinds) ==
    /\ (onchain.abort = 0) <=> (mock.error = "")
    /\ onchain.abort # 0 => GuardOfCode(onchain.abort) = GuardOfMessage(mock.error)
    /\ (onchain.abort = 0 /\ mock.error = "") =>
          /\ mock.job.status = StatusName(onchain.job.status)
          /\ mock.job.worker = (IF is_none(onchain.job.worker) THEN null
                                ELSE borrow(onchain.job.worker))
          /\ [i \in DOMAIN mock.job.timeline |-> mock.job.timeline[i].type]
                = kinds \o [i \in DOMAIN onchain.events |-> onchain.events[i].type]

\* C33: in every state, every create call, and every accept, submit, settle
\* and refund call on a job the contract and the mock client both hold, agrees
\* between the two: same success or failure, same guard, same resulting
\* status, worker and timeline kinds.
C33_MockAgreesWithMove ==
    /\ \A s \in Addresses, d \in MockDescriptions, dl \in Deadlines, p \in CoinValues :
          Agree(create_job_internal(Len(jobs) + 1, s, d, dl, p, clock),
                mock_createJob(Len(jobs) + 1, s, d, p, dl, clock), <<>>)
    /\ \A j \in DOMAIN jobs : \A s \in Addresses :
          /\ Agree(accept_job_internal(jobs[j], s, clock),
                   mock_acceptJob(MockOf(j), s, clock), KindsOf(j))
          /\ \A u \in MockUris, h \in ResultHashes :
                Agree(submit_result_internal(jobs[j], s, u, h, clock),
                      mock_submitResult(MockOf(j), s, u, h, clock), KindsOf(j))
          /\ Agree(settle_job_internal(jobs[j], s, clock),
                   mock_settleJob(MockOf(j), s, clock), KindsOf(j))
          /\ Agree(refund_job_internal(jobs[j], s, clock),
                   mock_refundJob(MockOf(j), s, clock), KindsOf(j))

====
